---------------------------- MODULE Spec2Model ----------------------------
(***************************************************************************)
(* Telegram-Claude bridge (src/bridge.js), its watchdog (src/watchdog.js)  *)
(* and the dashboard's server (src/admin-server.js).                       *)
(*                                                                         *)
(* The state machines of the module:                                       *)
(*   Spec       the bridge process: poll loop, processMessage calls, the   *)
(*              execution slot, the in-memory queue, the cursor file;      *)
(*   FairSpec   Spec with the fairness of the event loop;                  *)
(*   CrashSpec  Spec with a crash-and-restart of the bridge process;       *)
(*   ExecSpec   Spec with an executor that can fail;                       *)
(*   CmdSpec    the bridge in any environment (credential, allowlist),     *)
(*              receiving prompts, /stop and /cd from any chat;            *)
(*   FaultSpec  the bridge with a failing transport and an activity log    *)
(*              that can become unwritable;                                *)
(*   CtlSpec    the bridge receiving prompts and the commands it answers   *)
(*              directly;                                                  *)
(*   AnyTextSpec the bridge receiving every kind of text;                  *)
(*   FanSpec    one call of runParallelAgents;                             *)
(*   WSpec      the watchdog: child spawn and exit, restart timers,        *)
(*              restart loop detection, shutdown;                          *)
(*   KillSpec   WSpec with signals that can fail to reach the child;       *)
(*   CapSpec    saveMessage appending to the history file;                 *)
(*   HistSpec   saveMessage and the dashboard's clearing of the history;   *)
(*   HealthSpec the bridge's heartbeat and the dashboard's health request; *)
(*   ChunkSpec  one call of sendMessage;                                   *)
(*   FormatSpec formatForTelegram, applied once and again;                 *)
(*   DashSpec   the watchdog restarting its child, with the dashboard's    *)
(*              restart and stop commands;                                 *)
(*   FallbackSpec one call of sendMessage with a failing transport;        *)
(*   SlotSpec   the execution slot and the health file under one request:  *)
(*              a single task, or /agents N.                               *)
(* An action is the code that runs between two suspension points of the    *)
(* single-threaded event loop (run to completion).                         *)
(***************************************************************************)
EXTENDS Integers, Sequences, FiniteSets

\* ------------------------------------------------------------------ bounds
MaxUpdates == 3        \* updates the transport delivers (Spec, FairSpec)
MaxCrashUpdates == 2   \* updates the transport delivers (CrashSpec)
MaxCrashes == 1        \* crash-and-restarts of the bridge process (CrashSpec)
AgentsN == 2           \* agents a /agents request asks for
MaxTicks == 12         \* watchdog time horizon, in steps of TickMs
MaxFan == 4            \* agents of one fan-out batch (FanSpec)
MaxExecUpdates == 2    \* updates the transport delivers (ExecSpec)
MaxCmdUpdates == 3     \* updates the transport delivers (CmdSpec)
MaxFaultUpdates == 2   \* updates the transport delivers (FaultSpec)
MaxAppends == 103      \* history entries appended (CapSpec, HistSpec)
MaxHealthTicks == 5    \* time horizon of HealthSpec, in steps of HEALTH_INTERVAL_MS
MaxChunks == 3         \* response texts reach MaxChunks * CHUNK_SIZE + 3 characters
MaxDetached == 2       \* bridges spawned by the dashboard
MaxRequested == 12     \* largest N of a /agents N request
MaxTagLen == 3         \* characters of a short response with markup
MaxTextLen == 4        \* characters of a text given to formatForTelegram

\* --------------------------------------------------------------- constants
MAX_RESTARTS == 5
RESTART_WINDOW_MS == 60000
RESTART_DELAY_MS == 5000
KILL_GRACE_MS == 10000
HEARTBEAT_MS == 30000
MESSAGES_KEPT == 100
LIVENESS_S == 15
HEALTH_INTERVAL_MS == 5000
CHUNK_SIZE == 4000
MAX_PARALLEL_AGENTS == 10

VARIABLES
    \* transport (Telegram side)
    updates,        \* updates delivered so far; update_id = index, value = kind of text
    confirmed,      \* highest update_id the transport regards as confirmed
    \* persisted
    stateFile,      \* .bridge-state.json: <<>> missing or unreadable, <<k>> holds k
    \* bridge process memory
    lastUpdateId,
    pollPc,         \* "start" | "fetch" | "iter" | "await" | "catch" | "backoff" | "escaped"
    batch,          \* updates of the fetched batch not yet iterated
    cur,            \* update whose processMessage call pollLoop awaits
    isProcessing,
    activeAgents,
    messageQueue,
    callPc,         \* position of every processMessage call, by <<update, origin>>
    \* observation only
    startLog,       \* updates in the order their execution started (this process run)
    arrivedBusy,    \* updates the transport received while the slot was busy
    everQueued,     \* updates ever pushed on messageQueue
    handled,        \* updates whose handling ran to completion
    crashes,
    lastOffset,     \* offset of the latest getUpdates request of this run (0: none yet)
    loadedCursor    \* what loadState returned when this process run started

VARIABLES
    \* environment of the bridge process
    botToken,       \* TELEGRAM_BOT_TOKEN is set
    allowed,        \* ALLOWED_CHAT_IDS
    logWritable,    \* appendFileSync on bridge.log succeeds
    \* bridge process memory
    bridgeExit,     \* "running" | "exit1": the bridge process
    workingDir,     \* WORKING_DIR
    messagesProcessed,  \* stats.messagesProcessed
    \* observation only
    senders,        \* chat id of every update, by update_id
    reply,          \* first reply sent for every update ("none": nothing sent)
    response,       \* by update: <<outcome of the executor, what runClaude returned>>
    fetchFailed     \* the latest getUpdates failed and no backoff followed it

envVars == <<botToken, allowed, logWritable>>

VARIABLES
    \* one call of runParallelAgents
    fanPc,          \* "idle" | "wait" | "done" | "raised"
    numAgents,
    agentState,     \* by agent index: "none" | "running" | "ok" | "fail"
    fanOutput       \* the entries of the combined reply, <<index, success>>

fanVars == <<fanPc, numAgents, agentState, fanOutput>>

bridgeVars == <<updates, confirmed, stateFile, lastUpdateId, pollPc, batch, cur,
                isProcessing, activeAgents, messageQueue, callPc, startLog,
                arrivedBusy, everQueued, handled, crashes, lastOffset, loadedCursor,
                envVars, bridgeExit, workingDir, messagesProcessed, senders, reply,
                response, fetchFailed, fanVars>>

VARIABLES
    \* watchdog process
    now,            \* Date.now(), ms since the watchdog started
    bridgeProcess,  \* "null" | "alive" | "failed" | "errored" | "exited": the handle's child
    killed,         \* bridgeProcess.killed
    restartTimes,
    shuttingDown,
    wdStatus,       \* status in watchdog-health.json
    wdReason,       \* reason in watchdog-health.json ("" when none)
    wdExit,         \* "running" | "exit0" | "exit1": the watchdog process
    restartTimers,  \* deadlines of the pending startBridge calls
    killTimer,      \* <<>> or <<deadline>> of shutdown's force-kill timeout
    exitListener,   \* shutdown's exit listener is attached to the handle
    hbDue,          \* next firing of the heartbeat interval
    \* observation only
    spawnLog,       \* time of every spawn
    attempts,       \* startBridge calls that passed the shuttingDown test
    sigterm,        \* SIGTERM was delivered to the child
    sigkill,        \* SIGKILL was delivered to the child
    graceElapsed,   \* the force-kill timeout fired with the child still alive
    exitCode,       \* <<>>, or <<code>> of the last 'exit' event of a child
    onlyCrashes     \* every child so far exited nonzero at once, nothing else happened

wdVars == <<now, bridgeProcess, killed, restartTimes, shuttingDown, wdStatus,
            wdReason, wdExit, restartTimers, killTimer, exitListener, hbDue,
            spawnLog, attempts, sigterm, sigkill, graceElapsed, exitCode,
            onlyCrashes>>

VARIABLES
    \* messages.json, and one call of saveMessage seen from outside the process
    messagesFile,   \* <<>> missing or unreadable, <<list>> holds the list of entries
    histPc,         \* "idle" | "loaded": saveMessage has read the file
    histBuf,        \* what loadMessages returned to the call in progress
    histN           \* entries appended so far; the entries are numbered 1, 2, ...

histVars == <<messagesFile, histPc, histBuf, histN>>

VARIABLES
    \* health.json and the dashboard's health endpoint
    healthFile,     \* <<>> missing or unreadable, else <<status, <<>> or <<lastHeartbeat>>>>
    wallClock,      \* Date.now(), ms
    healthReply     \* latest answer of GET /api/health: <<bridgeRunning, status, time>>

healthVars == <<healthFile, wallClock, healthReply>>

VARIABLES
    \* one call of sendMessage
    sendPc,         \* "idle" | "sending" | "retry" | "done" | "abandoned" | "raised"
    sendChat,       \* chatId
    sendArg,        \* text, as passed by the caller: a sequence of characters
    sendChunks,     \* chunks
    transmitted,    \* the messages the transport accepted, <<marker, body>> each
    posts           \* every axios.post made: <<chunk index, "html" | "plain", accepted>>

sendVars == <<sendPc, sendChat, sendArg, sendChunks, transmitted, posts>>

VARIABLES
    \* calls of formatForTelegram
    fmtPc,          \* "idle" | "once" | "twice"
    fmtInput,       \* the text formatted first
    fmtOut          \* what the calls returned, in order

fmtVars == <<fmtPc, fmtInput, fmtOut>>

VARIABLES
    \* the dashboard's restart and stop commands
    healthPid,      \* pid in health.json: <<>> when none, or <<process>>
    signalled,      \* serial of the watchdog's child that a dashboard signal ended
    detached,       \* the live bridges that the dashboard has spawned
    spawned         \* number of bridges the dashboard has spawned

dashVars == <<healthPid, signalled, detached, spawned>>

VARIABLES
    \* the execution slot under one top-level request
    slotPc,         \* "idle" | "usage" | "rejected" | "busy" | "ack" | "single" | "wait" | "done"
    requested,      \* <<>>, or <<N>> of the text /agents N query
    started,        \* indices of the query() invocations made
    settled,        \* indices of the query() invocations that have ended
    statsStatus,    \* stats.status
    snapshot        \* health.json: <<>> unreadable, or <<status, isProcessing, activeAgents>>

slotVars == <<slotPc, requested, started, settled, statsStatus, snapshot>>

sideVars == <<histVars, healthVars, sendVars, fmtVars, dashVars, slotVars>>

vars == <<bridgeVars, wdVars, sideVars>>

\* ------------------------------------------------------------ vocabulary
Max(a, b) == IF a >= b THEN a ELSE b

\* Kinds of inbound text, as processMessage tells them apart.
Kinds == {"prompt", "mode", "agents", "control", "unauth"}
TopLevel == {"prompt", "mode", "agents"}
\* Texts an authorized requester sends; "control" stands for /start, /status,
\* /cost and /logs, which read state and reply.
Texts == Kinds \ {"unauth"}
\* Texts told apart further: /stop and /cd <path>.
CmdTexts == {"prompt", "stop", "cd"}
\* The commands answered directly: "cd" is /cd with a path that exists,
\* "cdmissing" is /cd with a path that does not.
Controls == {"control", "stop", "cd", "cdmissing"}
CtlTexts == {"prompt"} \cup Controls
ChatIds == {1, 2}
Dirs == {"home", "proj"}
\* A path that is not on the file system.
MissingDir == "gone"
Origins == {"poll", "drain"}
MaxIds == Max(MaxUpdates, MaxCrashUpdates)
Calls == (1..MaxIds) \X Origins


\* ------------------------------------------------------------ state store
\* loadState: the stored lastUpdateId, 0 when the file is missing or unreadable.
loadState(f) == IF f = <<>> THEN 0 ELSE f[1]

\* Variant of saveState: the next offset is stored instead of the cursor.
saveStateNextOffset(f, updateId) == {<<updateId + 1>>, f, <<>>}

\* saveState: what a writeFileSync of the cursor can leave in the file. The write
\* succeeds, fails before touching the file, or fails after truncating it; the
\* error is swallowed in every case.
saveState(f, updateId) == {<<updateId>>, f, <<>>}

\* --------------------------------------------------------- message history
\* loadMessages: the stored list, [] when the file is missing or unreadable.
loadMessages(f) == IF f = <<>> THEN <<>> ELSE f[1]

\* Variant of Trimmed: the oldest entries are kept (slice(0, 100)).
TrimmedOldest(messages) ==
    IF Len(messages) <= MESSAGES_KEPT THEN messages
    ELSE SubSeq(messages, 1, MESSAGES_KEPT)

\* messages.slice(-100).
Trimmed(messages) ==
    IF Len(messages) <= MESSAGES_KEPT THEN messages
    ELSE SubSeq(messages, Len(messages) - MESSAGES_KEPT + 1, Len(messages))

\* saveMessage(msg) with a write that succeeds: the file after it.
saveMessage(f, msg) == <<Trimmed(Append(loadMessages(f), msg))>>

\* saveMessage as the dashboard process sees it: the read of the file ...
HistLoad ==
    /\ histPc = "idle"
    /\ histN < MaxAppends
    /\ histBuf' = loadMessages(messagesFile)
    /\ histPc' = "loaded"
    /\ UNCHANGED <<messagesFile, histN>>
    /\ UNCHANGED <<bridgeVars, wdVars, healthVars, sendVars, fmtVars, dashVars, slotVars>>

\* ... and the write of the list with the new entry pushed and the cap applied.
HistWrite ==
    /\ histPc = "loaded"
    /\ messagesFile' = <<Trimmed(Append(histBuf, histN + 1))>>
    /\ histN' = histN + 1
    /\ histBuf' = <<>>
    /\ histPc' = "idle"
    /\ UNCHANGED <<bridgeVars, wdVars, healthVars, sendVars, fmtVars, dashVars, slotVars>>

\* Dashboard, POST /api/clear-messages: the file is overwritten with '[]'.
ClearMessages ==
    /\ messagesFile # <<(<<>>)>>
    /\ messagesFile' = <<(<<>>)>>
    /\ UNCHANGED <<histPc, histBuf, histN>>
    /\ UNCHANGED <<bridgeVars, wdVars, healthVars, sendVars, fmtVars, dashVars, slotVars>>

\* ------------------------------------------------------------------ health
\* Date.now() when the model starts. A real clock reads ms since 1970, far
\* above the liveness threshold.
EpochMs == 4 * LIVENESS_S * 1000

\* Statuses updateHealth is called with.
HealthStatuses == {"idle", "processing"}

\* updateHealth(updates): stats gets lastHeartbeat = Date.now() and is written
\* to health.json; a failed write is swallowed and leaves the file as it was
\* or truncated.
updateHealth(f, status, t) == {<<status, <<t>>>>, f, <<>>}

\* The bridge writes its health: every 5 s from the interval, and when an
\* execution starts or ends.
UpdateHealth ==
    /\ \E status \in HealthStatuses :
          healthFile' \in updateHealth(healthFile, status, wallClock)
    /\ healthFile' # healthFile
    /\ UNCHANGED <<wallClock, healthReply>>
    /\ UNCHANGED <<bridgeVars, wdVars, histVars, sendVars, fmtVars, dashVars, slotVars>>

\* Time passes.
ClockTick ==
    /\ wallClock < EpochMs + MaxHealthTicks * HEALTH_INTERVAL_MS
    /\ wallClock' = wallClock + HEALTH_INTERVAL_MS
    /\ UNCHANGED <<healthFile, healthReply>>
    /\ UNCHANGED <<bridgeVars, wdVars, histVars, sendVars, fmtVars, dashVars, slotVars>>

\* Dashboard, readJsonFile(HEALTH_FILE, default): the parsed file, the default
\* (status unknown, no heartbeat) when it is missing or unreadable.
readHealth(f) == IF f = <<>> THEN <<"unknown", <<>>>> ELSE f

\* health.lastHeartbeat || 0
lastHeartbeat(health) ==
    IF health[2] = <<>> \/ health[2] = <<0>> THEN 0 ELSE health[2][1]

\* heartbeatAge = (now - lastHeartbeat) / 1000, kept in ms.
heartbeatAgeMs(health, t) == t - lastHeartbeat(health)

\* Variant of bridgeRunning: the status field is trusted.
bridgeRunningByStatus(health, t) == health[1] \in HealthStatuses

\* health.bridgeRunning = heartbeatAge < 15
bridgeRunning(health, t) == heartbeatAgeMs(health, t) < LIVENESS_S * 1000

\* Dashboard, GET /api/health.
GetHealth ==
    /\ LET health == readHealth(healthFile)
       IN  healthReply' = <<bridgeRunning(health, wallClock), health[1], wallClock>>
    /\ healthReply' # healthReply
    /\ UNCHANGED <<healthFile, wallClock>>
    /\ UNCHANGED <<bridgeVars, wdVars, histVars, sendVars, fmtVars, dashVars, slotVars>>

\* -------------------------------------------------------- formatForTelegram
\* Characters of texts without markdown: a letter, a blank, a line break and
\* an ampersand.
PlainChars == {"a", " ", "\n", "&"}
PlainTexts == UNION {[1..n -> PlainChars] : n \in 1..MaxTextLen}
Whitespace == {" ", "\n"}

\* '(Empty response)', kept as one symbol.
EmptyResponseText == <<"(Empty response)">>

\* escapeHtml: & becomes &amp; (no < or > in these texts).
RECURSIVE escapeHtml(_)
escapeHtml(text) ==
    IF text = <<>> THEN <<>>
    ELSE (IF Head(text) = "&" THEN <<"&", "a", "m", "p", ";">> ELSE <<Head(text)>>)
            \o escapeHtml(Tail(text))

\* The line breaks at the head of a text.
RECURSIVE LeadingBreaks(_)
LeadingBreaks(text) ==
    IF text = <<>> \/ Head(text) # "\n" THEN 0 ELSE 1 + LeadingBreaks(Tail(text))

\* escaped.replace(/\n{3,}/g, '\n\n')
RECURSIVE CollapseBreaks(_)
CollapseBreaks(text) ==
    IF text = <<>> THEN <<>>
    ELSE LET k == LeadingBreaks(text)
         IN  IF k >= 3 THEN <<"\n", "\n">> \o CollapseBreaks(SubSeq(text, k + 1, Len(text)))
             ELSE IF k >= 1 THEN SubSeq(text, 1, k) \o CollapseBreaks(SubSeq(text, k + 1, Len(text)))
             ELSE <<Head(text)>> \o CollapseBreaks(Tail(text))

\* String.prototype.trim
RECURSIVE TrimStart(_)
TrimStart(text) ==
    IF text # <<>> /\ Head(text) \in Whitespace THEN TrimStart(Tail(text)) ELSE text
RECURSIVE TrimEnd(_)
TrimEnd(text) ==
    IF text # <<>> /\ text[Len(text)] \in Whitespace
    THEN TrimEnd(SubSeq(text, 1, Len(text) - 1)) ELSE text
Trim(text) == TrimEnd(TrimStart(text))

\* formatForTelegram(text) on texts over PlainChars and over what it returns
\* for them. The steps that look for stylised Unicode letters, table rows,
\* backticks, asterisks, underscores, tildes, # headers, - or * bullets and
\* numbered lists find nothing in such texts and leave them as they are.
formatForTelegram(text) ==
    IF text = <<>> THEN EmptyResponseText
    ELSE Trim(CollapseBreaks(escapeHtml(text)))

\* A text is formatted ...
FormatFirst ==
    /\ fmtPc = "idle"
    /\ \E text \in PlainTexts :
          /\ fmtInput' = text
          /\ fmtOut' = <<formatForTelegram(text)>>
    /\ fmtPc' = "once"
    /\ UNCHANGED <<bridgeVars, wdVars, histVars, healthVars, sendVars, dashVars, slotVars>>

\* ... and what came out is formatted again.
FormatAgain ==
    /\ fmtPc = "once"
    /\ fmtOut' = Append(fmtOut, formatForTelegram(fmtOut[1]))
    /\ fmtPc' = "twice"
    /\ UNCHANGED fmtInput
    /\ UNCHANGED <<bridgeVars, wdVars, histVars, healthVars, sendVars, dashVars, slotVars>>

\* ------------------------------------------------------------- sendMessage
\* A text is the sequence of its characters; a character of a response is
\* named by its position in the response. The responses sendMessage is called
\* with are trimmed by formatForTelegram: they are empty or hold a
\* non-blank character.
TextOfLength(n) == [i \in 1..n |-> i]

\* Lengths around every multiple of the chunk size, and the 9001 of the
\* specification's example.
TextLens ==
    {n \in {k * CHUNK_SIZE + d : k \in 0..MaxChunks, d \in (0 - 3)..3} : n >= 1}
        \cup {2 * CHUNK_SIZE + 1001}
ResponseTexts == {TextOfLength(n) : n \in TextLens} \cup {<<>>}

\* '(Empty response)', 16 characters that belong to no response.
EmptyResponse == [i \in 1..16 |-> 0 - i]

\* if (!text || text.trim() === '') text = '(Empty response)'
TextToSend(text) == IF text = <<>> THEN EmptyResponse ELSE text

\* remaining.substring(0, 4000) and remaining.substring(4000)
Substring(str, from, to) ==
    IF from >= Len(str) \/ from >= to THEN <<>>
    ELSE SubSeq(str, from + 1, IF to <= Len(str) THEN to ELSE Len(str))

\* Variant of Chunks: the character at every cut is dropped
\* (remaining.substring(4001)).
RECURSIVE ChunksDropBoundary(_)
ChunksDropBoundary(remaining) ==
    IF Len(remaining) = 0 THEN <<>>
    ELSE <<Substring(remaining, 0, CHUNK_SIZE)>>
            \o ChunksDropBoundary(Substring(remaining, CHUNK_SIZE + 1, Len(remaining)))

\* The while loop of sendMessage: chunks.
RECURSIVE Chunks(_)
Chunks(remaining) ==
    IF Len(remaining) = 0 THEN <<>>
    ELSE <<Substring(remaining, 0, CHUNK_SIZE)>>
            \o Chunks(Substring(remaining, CHUNK_SIZE, Len(remaining)))

\* The text posted for chunk i: the chunk behind a `[i/n]\n` marker when there
\* is more than one chunk. The marker is kept apart from the body.
ChunkMessage(chunks, i) ==
    <<IF Len(chunks) > 1 THEN <<i, Len(chunks)>> ELSE <<>>, chunks[i]>>

\* Responses that hold markup: every text of up to MaxTagLen characters over
\* "<", "b" and ">", and two texts longer than one chunk, with a tag in the
\* first chunk and with a tag across the cut.
TagChars == {"<", "b", ">"}
Filler(n) == [i \in 1..n |-> "b"]
TaggedTexts ==
    UNION {[1..n -> TagChars] : n \in 1..MaxTagLen}
        \cup {<<"<", "b", ">">> \o Filler(CHUNK_SIZE),
              Filler(CHUNK_SIZE - 1) \o <<"<", "b", ">">>}

\* The positions of text where the pattern <[^>]+> matches: a "<" whose next
\* ">" comes after at least one other character.
TagStarts(text) ==
    {i \in 1..Len(text) :
        /\ text[i] = "<"
        /\ \E j \in (i + 2)..Len(text) :
              /\ text[j] = ">"
              /\ \A k \in (i + 1)..(j - 1) : text[k] # ">"}
FirstOf(S) == CHOOSE i \in S : \A j \in S : i <= j

\* chunk.replace(/<[^>]+>/g, ''): every match, leftmost first, is removed.
RECURSIVE StripTags(_)
StripTags(text) ==
    IF TagStarts(text) = {} THEN text
    ELSE LET i == FirstOf(TagStarts(text))
             j == FirstOf({k \in (i + 1)..Len(text) : text[k] = ">"})
         IN  SubSeq(text, 1, i - 1) \o StripTags(SubSeq(text, j + 1, Len(text)))

\* sendMessage(chatId, text) up to its first await, for a text of `texts`: the
\* text is cut and the first chunk is posted.
SendText(texts) ==
    /\ sendPc \in {"idle", "done"}
    /\ \E chatId \in ChatIds, text \in texts :
          /\ sendChat' = chatId
          /\ sendArg' = text
          /\ sendChunks' = Chunks(TextToSend(text))
    /\ transmitted' = <<>>
    /\ posts' = <<>>
    /\ sendPc' = "sending"
    /\ UNCHANGED <<bridgeVars, wdVars, histVars, healthVars, fmtVars, dashVars, slotVars>>

SendMessage == SendText(ResponseTexts)
SendTagged == SendText(TaggedTexts)

\* The transport accepts the post of the next chunk; after the last chunk
\* sendMessage returns, otherwise it waits 500 ms and posts the next one.
SendChunk ==
    /\ sendPc = "sending"
    /\ transmitted' = Append(transmitted, ChunkMessage(sendChunks, Len(transmitted) + 1))
    /\ posts' = Append(posts, <<Len(transmitted) + 1, "html", TRUE>>)
    /\ sendPc' = IF Len(transmitted) + 1 = Len(sendChunks) THEN "done" ELSE "sending"
    /\ UNCHANGED <<sendChat, sendArg, sendChunks>>
    /\ UNCHANGED <<bridgeVars, wdVars, histVars, healthVars, fmtVars, dashVars, slotVars>>

\* The post of the next chunk fails (the transport rejects the markup, or
\* cannot be reached): the inner catch posts the chunk again without
\* parse_mode and with its tags removed.
PostHtmlFails ==
    /\ sendPc = "sending"
    /\ posts' = Append(posts, <<Len(transmitted) + 1, "html", FALSE>>)
    /\ sendPc' = "retry"
    /\ UNCHANGED <<sendChat, sendArg, sendChunks, transmitted>>
    /\ UNCHANGED <<bridgeVars, wdVars, histVars, healthVars, fmtVars, dashVars, slotVars>>

\* The plain post of chunk i, as the transport receives it.
PlainMessage(chunks, i) ==
    <<ChunkMessage(chunks, i)[1], StripTags(ChunkMessage(chunks, i)[2])>>

\* The plain post is answered. Accepted: the loop goes on as after an accepted
\* first post. Failed: the error leaves the for loop for the outer catch,
\* which calls log('ERROR', ...) and returns; when the log file cannot be
\* written, log throws inside the catch and the exception leaves sendMessage.
PostPlain ==
    /\ sendPc = "retry"
    /\ \E ok \in BOOLEAN :
          /\ posts' = Append(posts, <<Len(transmitted) + 1, "plain", ok>>)
          /\ transmitted' =
                IF ok THEN Append(transmitted, PlainMessage(sendChunks, Len(transmitted) + 1))
                ELSE transmitted
          /\ sendPc' =
                IF ok THEN (IF Len(transmitted) + 1 = Len(sendChunks) THEN "done"
                            ELSE "sending")
                ELSE IF logWritable THEN "abandoned" ELSE "raised"
    /\ UNCHANGED <<sendChat, sendArg, sendChunks>>
    /\ UNCHANGED <<bridgeVars, wdVars, histVars, healthVars, fmtVars, dashVars, slotVars>>

\* -------------------------------------------------------------- transport
\* Variants of Offset: the cursor itself is requested again; one update is skipped.
OffsetInclusive == lastUpdateId
OffsetSkips == lastUpdateId + 2

\* getUpdates: the offset requested.
Offset == lastUpdateId + 1

\* Variant of Available: the batch comes newest first.
AvailableReversed(off) ==
    LET lo == Max(off, confirmed + 1)
    IN  [i \in 1..Max(0, Len(updates) - lo + 1) |-> Len(updates) - i + 1]

\* Unconfirmed updates at or after the offset, in id order.
Available(off) ==
    LET lo == Max(off, confirmed + 1)
    IN  [i \in 1..Max(0, Len(updates) - lo + 1) |-> lo + i - 1]

\* Variant of isAuthorized: an empty allowlist admits everybody.
isAuthorizedOpen(chatId) == IF allowed = {} THEN TRUE ELSE chatId \in allowed

\* isAuthorized(chatId).
isAuthorized(chatId) == IF allowed = {} THEN FALSE ELSE chatId \in allowed

\* The transport receives a new update from a user: one of `texts`, sent from
\* any chat. The update is recorded by the branch processMessage takes for it.
DeliverText(max, texts) ==
    /\ Len(updates) < max
    /\ \E id \in ChatIds, t \in texts :
          /\ updates' = Append(updates, IF isAuthorized(id) THEN t ELSE "unauth")
          /\ senders' = Append(senders, id)
    /\ arrivedBusy' = IF isProcessing THEN arrivedBusy \cup {Len(updates) + 1}
                      ELSE arrivedBusy
    /\ UNCHANGED <<confirmed, stateFile, lastUpdateId, pollPc, batch, cur,
                   isProcessing, activeAgents, messageQueue, callPc, startLog,
                   everQueued, handled, crashes, lastOffset, loadedCursor>>
    /\ UNCHANGED <<envVars, bridgeExit, workingDir, messagesProcessed, reply,
                   response, fetchFailed, fanVars>>
    /\ UNCHANGED <<wdVars, sideVars>>

Deliver(max) == DeliverText(max, Texts)

\* ---------------------------------------------------------- processMessage
\* Variant of FirstAwait: no /stop branch, the text falls through to the
\* default mode.
FirstAwaitNoStop(kind, busy) ==
    CASE kind = "unauth"  -> "ctl"
      [] kind \in {"control", "cd", "cdmissing"} -> "ctl"
      [] kind = "agents"  -> IF busy THEN "ctl" ELSE "ack"
      [] OTHER            -> IF busy THEN "queued" ELSE "ack"

\* The first suspension point of processMessage(text), from its entry: the
\* authorization test, the command tests and the busy test run synchronously.
FirstAwait(kind, busy) ==
    CASE kind = "unauth"  -> "ctl"
      [] kind \in Controls -> "ctl"
      [] kind = "agents"  -> IF busy THEN "ctl" ELSE "ack"
      [] OTHER            -> IF busy THEN "queued" ELSE "ack"

\* Whether the entry pushes the message on messageQueue.
Enqueues(kind, busy) == busy /\ kind \in {"prompt", "mode"}

\* The entry of call c: the call's position and the queue after it.
EnterPc(c) == [callPc EXCEPT ![c] = FirstAwait(updates[c[1]], isProcessing)]
EnterQueue(c) ==
    IF Enqueues(updates[c[1]], isProcessing)
    THEN Append(messageQueue, c[1]) ELSE messageQueue
EnterQueued(c) ==
    IF Enqueues(updates[c[1]], isProcessing)
    THEN everQueued \cup {c[1]} ELSE everQueued

\* The first reply processMessage sends for the message.
ReplyOf(kind, busy) ==
    CASE kind = "unauth"  -> "unauthorized"
      [] kind = "stop"    -> IF busy THEN "cannot-interrupt" ELSE "nothing-running"
      [] kind \in {"control", "cd", "cdmissing"} -> "info"
      [] kind = "agents"  -> IF busy THEN "already-processing" ELSE "ack"
      [] OTHER            -> IF busy THEN "queued" ELSE "ack"
EnterReply(c) == [reply EXCEPT ![c[1]] = ReplyOf(updates[c[1]], isProcessing)]

\* Variant of existsSync: the path is not tested.
existsSyncAlways(path) == TRUE

\* fs.existsSync(newDir).
existsSync(path) == path \in Dirs

\* The paths a /cd text can carry.
CdPaths(kind) ==
    CASE kind = "cd"        -> Dirs
      [] kind = "cdmissing" -> {MissingDir}
      [] OTHER              -> {}

\* /cd <path>: WORKING_DIR becomes the path when it exists.
EnterDirs(c) ==
    IF CdPaths(updates[c[1]]) = {} THEN {workingDir}
    ELSE {IF existsSync(path) THEN path ELSE workingDir : path \in CdPaths(updates[c[1]])}

\* stats.messagesProcessed after a domain-mode or /agents reply was sent.
ProcessedAfterReply(kind) ==
    CASE kind = "mode"   -> messagesProcessed + 1
      [] kind = "agents" -> messagesProcessed + AgentsN
      [] OTHER           -> messagesProcessed

\* runClaude / runParallelAgents mark the slot before their first await.
AgentsOf(kind) == IF kind = "agents" THEN AgentsN ELSE 1

\* The queue drain at the end of the default-mode path.
DrainsQueue(kind) == kind = "prompt"

\* The event loop resumes call c: its awaited send has completed, or its
\* setImmediate callback is due.
Resume(c) ==
    LET m    == c[1]
        kind == updates[m]
        pc   == callPc[c]
    IN
    /\ pc \in {"scheduled", "ctl", "queued", "ack", "reply", "reply2"}
    /\ callPc' =
         CASE pc = "scheduled" -> EnterPc(c)
           [] pc = "ack"       -> [callPc EXCEPT ![c] = "run"]
           [] pc = "reply" /\ kind = "prompt" -> [callPc EXCEPT ![c] = "reply2"]
           [] pc = "reply2" /\ DrainsQueue(kind) /\ messageQueue # <<>> ->
                [callPc EXCEPT ![c] = "done",
                               ![<<Head(messageQueue), "drain">>] = "scheduled"]
           [] OTHER            -> [callPc EXCEPT ![c] = "done"]
    /\ messageQueue' =
         CASE pc = "scheduled" -> EnterQueue(c)
           [] pc = "reply2" /\ DrainsQueue(kind) /\ messageQueue # <<>> -> Tail(messageQueue)
           [] OTHER -> messageQueue
    /\ everQueued' = IF pc = "scheduled" THEN EnterQueued(c) ELSE everQueued
    /\ isProcessing' = IF pc = "ack" THEN TRUE ELSE isProcessing
    /\ activeAgents' = IF pc = "ack" THEN AgentsOf(kind) ELSE activeAgents
    /\ startLog' = IF pc = "ack" THEN Append(startLog, m) ELSE startLog
    /\ handled' = IF pc \in {"ctl", "reply2"} \/ (pc = "reply" /\ kind # "prompt")
                  THEN handled \cup {m} ELSE handled
    /\ reply' = IF pc = "scheduled" THEN EnterReply(c) ELSE reply
    /\ workingDir' \in (IF pc = "scheduled" THEN EnterDirs(c) ELSE {workingDir})
    /\ messagesProcessed' = IF pc = "reply" THEN ProcessedAfterReply(kind)
                            ELSE messagesProcessed
    /\ UNCHANGED <<updates, confirmed, stateFile, lastUpdateId, pollPc, batch, cur,
                   arrivedBusy, crashes, lastOffset, loadedCursor>>
    /\ UNCHANGED <<envVars, bridgeExit, senders, response, fetchFailed, fanVars>>
    /\ UNCHANGED <<wdVars, sideVars>>

\* Variant of BusyAfter: the slot is freed on the success path only.
BusyAfterNoFinally(outcome) == outcome # "ok"

\* isProcessing after runClaude / runParallelAgents: the finally block.
BusyAfter(outcome) == FALSE

\* What runClaude returns: the formatted result, or the text of the error.
runClaudeReturn(outcome) == IF outcome = "ok" THEN "text" ELSE "error"

\* The executor invocation(s) of call c settle with `outcome`; processMessage
\* continues up to the send of the response. The default-mode path appends the
\* history entry and counts the message before that send; the other paths
\* never call saveMessage.
ExecSettles(c, outcome) ==
    /\ callPc[c] = "run"
    /\ callPc' = [callPc EXCEPT ![c] = "reply"]
    /\ isProcessing' = BusyAfter(outcome)
    /\ activeAgents' = IF BusyAfter(outcome) THEN activeAgents ELSE 0
    /\ response' = [response EXCEPT ![c[1]] = <<outcome, runClaudeReturn(outcome)>>]
    /\ messagesFile' = IF updates[c[1]] = "prompt"
                       THEN saveMessage(messagesFile, c[1]) ELSE messagesFile
    /\ messagesProcessed' = IF updates[c[1]] = "prompt" THEN messagesProcessed + 1
                            ELSE messagesProcessed
    /\ UNCHANGED <<updates, confirmed, stateFile, lastUpdateId, pollPc, batch, cur,
                   messageQueue, startLog, arrivedBusy, everQueued, handled,
                   crashes, lastOffset, loadedCursor>>
    /\ UNCHANGED <<envVars, bridgeExit, workingDir, senders, reply, fetchFailed,
                   fanVars>>
    /\ UNCHANGED <<histPc, histBuf, histN, healthVars, sendVars, fmtVars, dashVars, slotVars>>
    /\ UNCHANGED wdVars

\* The executor succeeds.
ExecDone(c) == ExecSettles(c, "ok")

\* The executor throws: runClaude's catch turns the error into the response.
ExecFails(c) == ExecSettles(c, "error")

\* ------------------------------------------------------- runParallelAgents
\* runParallelAgents(prompts): the slot is marked and every agent is started.
FanStart ==
    /\ fanPc = "idle"
    /\ \E n \in 1..MaxFan :
          /\ numAgents' = n
          /\ agentState' = [i \in 1..MaxFan |-> IF i <= n THEN "running" ELSE "none"]
    /\ fanPc' = "wait"
    /\ fanOutput' = <<>>
    /\ UNCHANGED <<updates, confirmed, stateFile, lastUpdateId, pollPc, batch, cur,
                   isProcessing, activeAgents, messageQueue, callPc, startLog,
                   arrivedBusy, everQueued, handled, crashes, lastOffset, loadedCursor>>
    /\ UNCHANGED <<envVars, bridgeExit, workingDir, messagesProcessed, senders,
                   reply, response, fetchFailed>>
    /\ UNCHANGED <<wdVars, sideVars>>

\* Agent i's query ends: with a result, or with an error that the agent's own
\* catch turns into a value.
AgentSettles(i) ==
    /\ fanPc = "wait"
    /\ agentState[i] = "running"
    /\ \E o \in {"ok", "fail"} : agentState' = [agentState EXCEPT ![i] = o]
    /\ UNCHANGED <<fanPc, numAgents, fanOutput>>
    /\ UNCHANGED <<updates, confirmed, stateFile, lastUpdateId, pollPc, batch, cur,
                   isProcessing, activeAgents, messageQueue, callPc, startLog,
                   arrivedBusy, everQueued, handled, crashes, lastOffset, loadedCursor>>
    /\ UNCHANGED <<envVars, bridgeExit, workingDir, messagesProcessed, senders,
                   reply, response, fetchFailed>>
    /\ UNCHANGED <<wdVars, sideVars>>

\* Variant of AllSettled: the wait ends with the first agent that settles.
AnySettled == \E i \in 1..numAgents : agentState[i] \in {"ok", "fail"}

\* await Promise.allSettled(promises).
AllSettled == \A i \in 1..numAgents : agentState[i] \in {"ok", "fail"}

\* The entry of the combined reply for agent i: its index and whether it is
\* rendered as a result or as "Error - ...".
Entry(i) == <<i, agentState[i] = "ok">>

\* The results are rendered in array order and the output is returned.
FanCollect ==
    /\ fanPc = "wait"
    /\ AllSettled
    /\ fanOutput' = [i \in 1..numAgents |-> Entry(i)]
    /\ fanPc' = IF logWritable THEN "done" ELSE "raised"
    /\ UNCHANGED <<numAgents, agentState>>
    /\ UNCHANGED <<updates, confirmed, stateFile, lastUpdateId, pollPc, batch, cur,
                   isProcessing, activeAgents, messageQueue, callPc, startLog,
                   arrivedBusy, everQueued, handled, crashes, lastOffset, loadedCursor>>
    /\ UNCHANGED <<envVars, bridgeExit, workingDir, messagesProcessed, senders,
                   reply, response, fetchFailed>>
    /\ UNCHANGED <<wdVars, sideVars>>

\* ----------------------------------------------------------------- startup
\* Variant of TokenMissing: the credential is not validated.
TokenMissingIgnored == FALSE

\* The startup validation: !BOT_TOKEN.
TokenMissing == ~botToken

\* The end of the script: validate the credential, then call pollLoop, which
\* writes its banner to the log and enters the loop.
Startup ==
    /\ pollPc = "start"
    /\ bridgeExit = "running"
    /\ IF TokenMissing
       THEN /\ bridgeExit' = "exit1"
            /\ UNCHANGED pollPc
       ELSE /\ pollPc' = IF logWritable THEN "fetch" ELSE "escaped"
            /\ UNCHANGED bridgeExit
    /\ UNCHANGED <<updates, confirmed, stateFile, lastUpdateId, batch, cur,
                   isProcessing, activeAgents, messageQueue, callPc, startLog,
                   arrivedBusy, everQueued, handled, crashes, lastOffset, loadedCursor>>
    /\ UNCHANGED <<envVars, workingDir, messagesProcessed, senders, reply, response,
                   fetchFailed, fanVars>>
    /\ UNCHANGED <<wdVars, sideVars>>

\* ---------------------------------------------------------------- pollLoop
\* await getUpdates() answered by the transport: a prefix of the available
\* updates (none when the long poll ends empty); requesting an offset confirms
\* every update below it.
GetUpdates ==
    /\ pollPc = "fetch"
    /\ \E k \in 0..Len(Available(Offset)) :
          /\ batch' = SubSeq(Available(Offset), 1, k)
          /\ pollPc' = IF k = 0 THEN "fetch" ELSE "iter"
    /\ confirmed' = Max(confirmed, Offset - 1)
    /\ lastOffset' = Offset
    /\ fetchFailed' = FALSE
    /\ UNCHANGED <<updates, stateFile, lastUpdateId, cur, isProcessing, activeAgents,
                   messageQueue, callPc, startLog, arrivedBusy, everQueued, handled,
                   crashes, loadedCursor>>
    /\ UNCHANGED <<envVars, bridgeExit, workingDir, messagesProcessed, senders,
                   reply, response, fanVars>>
    /\ UNCHANGED <<wdVars, sideVars>>

\* One iteration of the for loop, up to the first suspension of processMessage.
PollNext ==
    /\ pollPc = "iter"
    /\ batch # <<>>
    /\ LET u == Head(batch)
           c == <<u, "poll">>
       IN  /\ lastUpdateId' = u
           /\ stateFile' \in saveState(stateFile, u)
           /\ cur' = u
           /\ batch' = Tail(batch)
           /\ callPc' = EnterPc(c)
           /\ messageQueue' = EnterQueue(c)
           /\ everQueued' = EnterQueued(c)
           /\ reply' = EnterReply(c)
           /\ workingDir' \in EnterDirs(c)
    /\ pollPc' = "await"
    /\ UNCHANGED <<updates, confirmed, isProcessing, activeAgents, startLog,
                   arrivedBusy, handled, crashes, lastOffset, loadedCursor>>
    /\ UNCHANGED <<envVars, bridgeExit, messagesProcessed, senders, response,
                   fetchFailed, fanVars>>
    /\ UNCHANGED <<wdVars, sideVars>>

\* Variant of ForwardReturns: processMessage is called without await.
ForwardReturnsEarly(c) == TRUE

\* Variant of ForwardReturns: pollLoop goes on as soon as the call has reached
\* its first suspension.
ForwardReturnsAtFirstAwait(c) == callPc[c] # "none"

\* Variant of ForwardReturns: pollLoop goes on once the execution has started.
ForwardReturnsOnceStarted(c) == callPc[c] \in {"run", "reply", "reply2", "done"}

\* await processMessage(update.message): pollLoop continues when the call's
\* promise settles.
ForwardReturns(c) == callPc[c] = "done"

PollResume ==
    /\ pollPc = "await"
    /\ ForwardReturns(<<cur, "poll">>)
    /\ pollPc' = IF batch = <<>> THEN "fetch" ELSE "iter"
    /\ UNCHANGED <<updates, confirmed, stateFile, lastUpdateId, batch, cur,
                   isProcessing, activeAgents, messageQueue, callPc, startLog,
                   arrivedBusy, everQueued, handled, crashes, lastOffset, loadedCursor>>
    /\ UNCHANGED <<envVars, bridgeExit, workingDir, messagesProcessed, senders,
                   reply, response, fetchFailed, fanVars>>
    /\ UNCHANGED <<wdVars, sideVars>>

\* ------------------------------------------------------------------ faults
\* bridge.log becomes unwritable (disk full, permissions, file locked), or
\* writable again.
LogBreaks ==
    /\ logWritable
    /\ logWritable' = FALSE
    /\ UNCHANGED <<updates, confirmed, stateFile, lastUpdateId, pollPc, batch, cur,
                   isProcessing, activeAgents, messageQueue, callPc, startLog,
                   arrivedBusy, everQueued, handled, crashes, lastOffset, loadedCursor>>
    /\ UNCHANGED <<botToken, allowed, bridgeExit, workingDir, messagesProcessed,
                   senders, reply, response, fetchFailed, fanVars>>
    /\ UNCHANGED <<wdVars, sideVars>>

LogRecovers ==
    /\ ~logWritable
    /\ logWritable' = TRUE
    /\ UNCHANGED <<updates, confirmed, stateFile, lastUpdateId, pollPc, batch, cur,
                   isProcessing, activeAgents, messageQueue, callPc, startLog,
                   arrivedBusy, everQueued, handled, crashes, lastOffset, loadedCursor>>
    /\ UNCHANGED <<botToken, allowed, bridgeExit, workingDir, messagesProcessed,
                   senders, reply, response, fetchFailed, fanVars>>
    /\ UNCHANGED <<wdVars, sideVars>>

\* getUpdates fails: a timeout (ECONNABORTED) is swallowed silently, any other
\* error is logged; [] is returned and pollLoop goes round its while loop. When
\* the log call throws, the exception leaves getUpdates for pollLoop's catch.
FetchFails ==
    /\ pollPc = "fetch"
    /\ lastOffset' = Offset
    /\ \E code \in {"ECONNABORTED", "other"} :
          IF code = "other" /\ ~logWritable
          THEN pollPc' = "catch" /\ UNCHANGED fetchFailed
          ELSE pollPc' = "fetch" /\ fetchFailed' = TRUE
    /\ UNCHANGED <<updates, confirmed, stateFile, lastUpdateId, batch, cur,
                   isProcessing, activeAgents, messageQueue, callPc, startLog,
                   arrivedBusy, everQueued, handled, crashes, loadedCursor>>
    /\ UNCHANGED <<envVars, bridgeExit, workingDir, messagesProcessed, senders,
                   reply, response, fanVars>>
    /\ UNCHANGED <<wdVars, sideVars>>

\* One iteration of the for loop with an unwritable log: the cursor is stored,
\* then the log call at the entry of processMessage throws; the rest of the
\* batch is abandoned.
PollNextThrows ==
    /\ pollPc = "iter"
    /\ batch # <<>>
    /\ ~logWritable
    /\ lastUpdateId' = Head(batch)
    /\ stateFile' \in saveState(stateFile, Head(batch))
    /\ cur' = Head(batch)
    /\ batch' = <<>>
    /\ callPc' = [callPc EXCEPT ![<<Head(batch), "poll">>] = "thrown"]
    /\ pollPc' = "catch"
    /\ UNCHANGED <<updates, confirmed, isProcessing, activeAgents, messageQueue,
                   startLog, arrivedBusy, everQueued, handled, crashes, lastOffset,
                   loadedCursor>>
    /\ UNCHANGED <<envVars, bridgeExit, workingDir, messagesProcessed, senders,
                   reply, response, fetchFailed, fanVars>>
    /\ UNCHANGED <<wdVars, sideVars>>

\* Call c throws at a log call with an unwritable log: at the entry of
\* runClaude (before the slot is marked), or after the executor settled, where
\* the catch logs again and only the finally block runs. No reply is sent.
CallThrows(c) ==
    /\ callPc[c] \in {"ack", "run"}
    /\ ~logWritable
    /\ callPc' = [callPc EXCEPT ![c] = "thrown"]
    /\ isProcessing' = IF callPc[c] = "run" THEN FALSE ELSE isProcessing
    /\ activeAgents' = IF callPc[c] = "run" THEN 0 ELSE activeAgents
    /\ pollPc' = IF c[2] = "poll" THEN "catch" ELSE pollPc
    /\ batch' = IF c[2] = "poll" THEN <<>> ELSE batch
    /\ UNCHANGED <<updates, confirmed, stateFile, lastUpdateId, cur, messageQueue,
                   startLog, arrivedBusy, everQueued, handled, crashes, lastOffset,
                   loadedCursor>>
    /\ UNCHANGED <<envVars, bridgeExit, workingDir, messagesProcessed, senders,
                   reply, response, fetchFailed, fanVars>>
    /\ UNCHANGED <<wdVars, sideVars>>

\* The steps of the bridge that write to the log, with a writable log.
LoggedPollNext == logWritable /\ PollNext
LoggedResume(c) == (callPc[c] \in {"scheduled", "ack"} => logWritable) /\ Resume(c)
LoggedExecDone(c) == logWritable /\ ExecDone(c)

\* pollLoop's catch: the error is logged, then the loop waits 5 s. When the
\* log call throws, the exception leaves pollLoop.
PollCatch ==
    /\ pollPc = "catch"
    /\ pollPc' = IF logWritable THEN "backoff" ELSE "escaped"
    /\ UNCHANGED <<updates, confirmed, stateFile, lastUpdateId, batch, cur,
                   isProcessing, activeAgents, messageQueue, callPc, startLog,
                   arrivedBusy, everQueued, handled, crashes, lastOffset, loadedCursor>>
    /\ UNCHANGED <<envVars, bridgeExit, workingDir, messagesProcessed, senders,
                   reply, response, fetchFailed, fanVars>>
    /\ UNCHANGED <<wdVars, sideVars>>

\* The 5 s wait of the catch block is over.
BackoffElapses ==
    /\ pollPc = "backoff"
    /\ pollPc' = "fetch"
    /\ fetchFailed' = FALSE
    /\ UNCHANGED <<updates, confirmed, stateFile, lastUpdateId, batch, cur,
                   isProcessing, activeAgents, messageQueue, callPc, startLog,
                   arrivedBusy, everQueued, handled, crashes, lastOffset, loadedCursor>>
    /\ UNCHANGED <<envVars, bridgeExit, workingDir, messagesProcessed, senders,
                   reply, response, fanVars>>
    /\ UNCHANGED <<wdVars, sideVars>>

\* ------------------------------------------------------ crash and restart
\* The process dies at any point and is started again: module load runs
\* loadState and resets everything held in memory.
Crash ==
    /\ crashes < MaxCrashes
    /\ bridgeExit = "running"
    /\ pollPc # "start"
    /\ crashes' = crashes + 1
    /\ lastUpdateId' = loadState(stateFile)
    /\ loadedCursor' = loadState(stateFile)
    /\ lastOffset' = 0
    /\ pollPc' = "fetch"
    /\ batch' = <<>>
    /\ cur' = 0
    /\ isProcessing' = FALSE
    /\ activeAgents' = 0
    /\ messageQueue' = <<>>
    /\ callPc' = [c \in Calls |-> "none"]
    /\ startLog' = <<>>
    /\ workingDir' = "home"
    /\ messagesProcessed' = 0
    /\ fetchFailed' = FALSE
    /\ UNCHANGED <<updates, confirmed, stateFile, arrivedBusy, everQueued, handled>>
    /\ UNCHANGED <<envVars, bridgeExit, senders, reply, response, fanVars>>
    /\ UNCHANGED <<wdVars, sideVars>>

\* ---------------------------------------------------------- execution slot
\* The other variables of the bridge, which the slot's code leaves alone.
SlotFrame ==
    /\ UNCHANGED <<updates, confirmed, stateFile, lastUpdateId, pollPc, batch, cur,
                   messageQueue, callPc, startLog, arrivedBusy, everQueued, handled,
                   crashes, lastOffset, loadedCursor>>
    /\ UNCHANGED <<envVars, bridgeExit, workingDir, messagesProcessed, senders,
                   reply, response, fetchFailed, fanVars>>
    /\ UNCHANGED <<wdVars, histVars, healthVars, sendVars, fmtVars, dashVars>>

\* updateHealth: what the write of health.json can leave in the file when the
\* status is st and the slot holds (busy, agents). A failed write is swallowed.
writeSnapshot(st, busy, agents) == {<<st, busy, agents>>, snapshot, <<>>}

\* Variant of AgentCount: the requested number is not clamped.
AgentCountUnclamped(n) == n

\* Math.min(parseInt(match[1]), MAX_PARALLEL_AGENTS).
AgentCount(n) == IF n <= MAX_PARALLEL_AGENTS THEN n ELSE MAX_PARALLEL_AGENTS

\* Variant of FreedAgents: the finally block resets the flag only.
FreedAgentsKept(n) == n

\* activeAgents after the finally block of runClaude / runParallelAgents.
FreedAgents(n) == 0

\* processMessage for a text that starts with "/agents ", from an authorized
\* requester, up to its first send: the text does not match the pattern, or it
\* asks for N agents.
AgentsRequest ==
    /\ slotPc = "idle"
    /\ \/ /\ requested' = <<>>
          /\ slotPc' = "usage"
       \/ \E n \in 0..MaxRequested :
             /\ requested' = <<n>>
             /\ slotPc' = IF AgentCount(n) < 1 THEN "rejected"
                          ELSE IF isProcessing THEN "busy" ELSE "ack"
    /\ UNCHANGED <<isProcessing, activeAgents, started, settled, statsStatus, snapshot>>
    /\ SlotFrame

\* The launch message is sent; runParallelAgents(prompts) runs up to its
\* await of Promise.allSettled: it writes the health file, marks the slot and
\* starts one query per prompt.
AgentsLaunch ==
    /\ slotPc = "ack"
    /\ slotPc' = "wait"
    /\ statsStatus' = "processing-agents"
    /\ snapshot' \in writeSnapshot("processing-agents", isProcessing, activeAgents)
    /\ isProcessing' = TRUE
    /\ activeAgents' = AgentCount(requested[1])
    /\ started' = 1..AgentCount(requested[1])
    /\ UNCHANGED <<requested, settled>>
    /\ SlotFrame

\* processMessage in a single-task mode (default or a domain mode): the
\* acknowledgement is sent; runClaude runs up to its first await: it writes
\* the health file, marks the slot and starts the query.
RunClaudeEnter ==
    /\ slotPc = "idle"
    /\ ~isProcessing
    /\ slotPc' = "single"
    /\ statsStatus' = "processing"
    /\ snapshot' \in writeSnapshot("processing", isProcessing, activeAgents)
    /\ isProcessing' = TRUE
    /\ activeAgents' = 1
    /\ started' = {1}
    /\ UNCHANGED <<requested, settled>>
    /\ SlotFrame

\* Query i ends, with a result or with an error.
QuerySettles(i) ==
    /\ slotPc \in {"single", "wait"}
    /\ i \in started \ settled
    /\ settled' = settled \cup {i}
    /\ UNCHANGED <<isProcessing, activeAgents, slotPc, requested, started, statsStatus,
                   snapshot>>
    /\ SlotFrame

\* Every query has ended: the finally block frees the slot and writes the
\* health file.
SlotFinally ==
    /\ slotPc \in {"single", "wait"}
    /\ settled = started
    /\ slotPc' = "done"
    /\ isProcessing' = FALSE
    /\ activeAgents' = FreedAgents(activeAgents)
    /\ statsStatus' = "idle"
    /\ snapshot' \in writeSnapshot("idle", FALSE, FreedAgents(activeAgents))
    /\ UNCHANGED <<requested, started, settled>>
    /\ SlotFrame

\* The 5 s interval: updateHealth() rewrites the file with the status kept in
\* stats and the slot as it is.
HealthInterval ==
    /\ snapshot' \in writeSnapshot(statsStatus, isProcessing, activeAgents)
    /\ UNCHANGED <<isProcessing, activeAgents, slotPc, requested, started, settled,
                   statsStatus>>
    /\ SlotFrame

\* ================================================================ watchdog
\* Time advances in steps of the restart delay.
TickMs == RESTART_DELAY_MS

\* Variant of Pruned: the record is never pruned.
PrunedNever(rt, t) == rt

\* isRestartLoopDetected: restartTimes with the entries outside the window removed.
Pruned(rt, t) == SelectSeq(rt, LAMBDA x : t - x < RESTART_WINDOW_MS)

\* Variant of LoopDetected: the comparison is strict.
LoopDetectedStrict(rt) == Len(rt) > MAX_RESTARTS

\* isRestartLoopDetected: the test on the pruned record.
LoopDetected(rt) == Len(rt) >= MAX_RESTARTS

\* child.kill(signal): the signal reaches the child iff its process is alive; a
\* delivered signal sets the handle's killed flag.
Delivered(handle) == handle = "alive"

\* The code argument of an 'exit' event: the child's exit code, or null when a
\* signal ended the child.
NullCode == -1
ExitCodes == {0, 1, NullCode}

\* Variant of ExitTimers: a restart is scheduled after every exit.
ExitTimersAnyCode(code) ==
    IF shuttingDown THEN restartTimers
    ELSE Append(restartTimers, now + RESTART_DELAY_MS)

\* The child's exit handler installed by startBridge: status, reason and restart
\* timers after an exit with `code`.
ExitStatus(code) ==
    IF shuttingDown THEN <<wdStatus, wdReason>>
    ELSE IF code = 0 THEN <<"stopped", "normal_exit">>
    ELSE <<"restarting", "">>
ExitTimers(code) ==
    IF shuttingDown \/ code = 0 THEN restartTimers
    ELSE Append(restartTimers, now + RESTART_DELAY_MS)

\* Variant of Recorded: the spawn at boot is not recorded, only restarts are.
RecordedRestartsOnly(rt, t) == IF spawnLog = <<>> THEN rt ELSE Append(rt, t)

\* restartTimes.push(Date.now())
Recorded(rt, t) == Append(rt, t)

\* Variant of StartReturns: startBridge does not test shuttingDown.
StartReturnsNever == FALSE

\* if (shuttingDown) return, at the entry of startBridge.
StartReturns == shuttingDown

\* startBridge(), called at boot and by every restart timer.
StartBridge ==
    /\ wdExit = "running"
    /\ restartTimers # <<>>
    /\ Head(restartTimers) <= now
    /\ restartTimers' = Tail(restartTimers)
    /\ IF StartReturns
       THEN UNCHANGED <<bridgeProcess, killed, restartTimes, wdStatus,
                        wdReason, wdExit, spawnLog, attempts, onlyCrashes>>
       ELSE /\ attempts' = attempts + 1
            /\ IF LoopDetected(Pruned(restartTimes, now))
               THEN /\ restartTimes' = Pruned(restartTimes, now)
                    /\ wdStatus' = "stopped"
                    /\ wdReason' = "restart_loop"
                    /\ wdExit' = "exit1"
                    /\ UNCHANGED <<bridgeProcess, killed, spawnLog, onlyCrashes>>
               ELSE /\ restartTimes' = Recorded(Pruned(restartTimes, now), now)
                    /\ \E h \in {"alive", "failed"} :
                          /\ bridgeProcess' = h
                          /\ onlyCrashes' = (onlyCrashes /\ h = "alive")
                    /\ killed' = FALSE
                    /\ wdStatus' = "running"
                    /\ wdReason' = ""
                    /\ spawnLog' = Append(spawnLog, now)
                    /\ UNCHANGED wdExit
    /\ UNCHANGED <<exitCode, now, shuttingDown, killTimer, exitListener, hbDue, sigterm,
                   sigkill, graceElapsed>>
    /\ UNCHANGED <<bridgeVars, sideVars>>

\* The child of the current handle exits: startBridge's exit handler runs, then
\* shutdown's exit listener when it is attached.
ChildExit ==
    /\ wdExit = "running"
    /\ bridgeProcess = "alive"
    /\ bridgeProcess' = "exited"
    /\ \E code \in ExitCodes :
          /\ exitCode' = <<code>>
          /\ restartTimers' = ExitTimers(code)
          /\ wdStatus' = IF exitListener THEN "stopped" ELSE ExitStatus(code)[1]
          /\ wdReason' = IF exitListener THEN "signal" ELSE ExitStatus(code)[2]
          /\ onlyCrashes' = (onlyCrashes /\ code # 0)
    /\ wdExit' = IF exitListener THEN "exit0" ELSE wdExit
    /\ killTimer' = IF exitListener THEN <<>> ELSE killTimer
    /\ UNCHANGED <<now, killed, restartTimes, shuttingDown, exitListener,
                   hbDue, spawnLog, attempts, sigterm, sigkill, graceElapsed>>
    /\ UNCHANGED <<bridgeVars, sideVars>>

\* The spawn failed: the handle emits 'error'. No child exists, and the handle
\* emits no 'exit' afterwards.
ChildError ==
    /\ wdExit = "running"
    /\ bridgeProcess = "failed"
    /\ bridgeProcess' = "errored"
    /\ wdStatus' = "error"
    /\ wdReason' = ""
    /\ restartTimers' = Append(restartTimers, now + RESTART_DELAY_MS)
    /\ UNCHANGED <<exitCode, now, killed, restartTimes, shuttingDown, wdExit,
                   killTimer, exitListener, hbDue, spawnLog, attempts, sigterm,
                   sigkill, graceElapsed, onlyCrashes>>
    /\ UNCHANGED <<bridgeVars, sideVars>>

\* Variant of ShutdownReturns: shutdown does not test shuttingDown.
ShutdownReturnsNever == FALSE

\* if (shuttingDown) return, at the entry of shutdown.
ShutdownReturns == shuttingDown

\* shutdown(signal), on SIGTERM, SIGINT or SIGHUP. The handlers run only after
\* the script's synchronous start, which has called startBridge.
Shutdown ==
    /\ wdExit = "running"
    /\ attempts > 0
    /\ IF ShutdownReturns
       THEN UNCHANGED <<shuttingDown, wdStatus, wdReason, wdExit, killed, sigterm,
                        killTimer, exitListener, onlyCrashes>>
       ELSE /\ shuttingDown' = TRUE
            /\ onlyCrashes' = FALSE
            /\ IF bridgeProcess = "null"
               THEN /\ wdStatus' = "stopped"
                    /\ wdReason' = "signal"
                    /\ wdExit' = "exit0"
                    /\ UNCHANGED <<killed, sigterm, killTimer, exitListener>>
               ELSE /\ wdStatus' = "stopping"
                    /\ wdReason' = ""
                    /\ sigterm' = (sigterm \/ Delivered(bridgeProcess))
                    /\ killed' = (killed \/ Delivered(bridgeProcess))
                    /\ killTimer' = <<now + KILL_GRACE_MS>>
                    /\ exitListener' = TRUE
                    /\ UNCHANGED wdExit
    /\ UNCHANGED <<exitCode, now, bridgeProcess, restartTimes, restartTimers, hbDue,
                   spawnLog, attempts, sigkill, graceElapsed>>
    /\ UNCHANGED <<bridgeVars, sideVars>>

\* The force-kill test of shutdown's timeout callback.
ForceKills == bridgeProcess # "null" /\ ~killed

\* shutdown's timeout callback, KILL_GRACE_MS after the signal.
KillTimeout ==
    /\ wdExit = "running"
    /\ killTimer # <<>>
    /\ killTimer[1] <= now
    /\ killTimer' = <<>>
    /\ graceElapsed' = (graceElapsed \/ bridgeProcess = "alive")
    /\ sigkill' = (sigkill \/ (ForceKills /\ Delivered(bridgeProcess)))
    /\ killed' = (killed \/ (ForceKills /\ Delivered(bridgeProcess)))
    /\ UNCHANGED <<exitCode, now, bridgeProcess, restartTimes, shuttingDown, wdStatus,
                   wdReason, wdExit, restartTimers, exitListener, hbDue, spawnLog,
                   attempts, sigterm, onlyCrashes>>
    /\ UNCHANGED <<bridgeVars, sideVars>>

\* shutdown(signal) when bridgeProcess.kill('SIGTERM') fails for a live child
\* (EPERM): kill emits 'error' on the handle and returns false, so the error
\* handler installed by startBridge runs inside shutdown: it writes status
\* error and sets a restart timer. The child keeps running.
ShutdownKillFails ==
    /\ wdExit = "running"
    /\ attempts > 0
    /\ ~ShutdownReturns
    /\ bridgeProcess = "alive"
    /\ shuttingDown' = TRUE
    /\ onlyCrashes' = FALSE
    /\ wdStatus' = "error"
    /\ wdReason' = ""
    /\ restartTimers' = Append(restartTimers, now + RESTART_DELAY_MS)
    /\ killTimer' = <<now + KILL_GRACE_MS>>
    /\ exitListener' = TRUE
    /\ UNCHANGED <<exitCode, now, bridgeProcess, killed, restartTimes, wdExit, hbDue,
                   spawnLog, attempts, sigterm, sigkill, graceElapsed>>
    /\ UNCHANGED <<bridgeVars, sideVars>>

\* shutdown's timeout callback when bridgeProcess.kill('SIGKILL') fails for a
\* live child: the error handler runs again.
KillTimeoutFails ==
    /\ wdExit = "running"
    /\ killTimer # <<>>
    /\ killTimer[1] <= now
    /\ ForceKills
    /\ bridgeProcess = "alive"
    /\ killTimer' = <<>>
    /\ graceElapsed' = TRUE
    /\ wdStatus' = "error"
    /\ wdReason' = ""
    /\ restartTimers' = Append(restartTimers, now + RESTART_DELAY_MS)
    /\ UNCHANGED <<exitCode, now, bridgeProcess, killed, restartTimes, shuttingDown,
                   wdExit, exitListener, hbDue, spawnLog, attempts, sigterm, sigkill,
                   onlyCrashes>>
    /\ UNCHANGED <<bridgeVars, sideVars>>

\* The heartbeat interval.
Heartbeat ==
    /\ wdExit = "running"
    /\ hbDue <= now
    /\ hbDue' = hbDue + HEARTBEAT_MS
    /\ wdStatus' = IF ~shuttingDown /\ bridgeProcess # "null" THEN "running" ELSE wdStatus
    /\ wdReason' = IF ~shuttingDown /\ bridgeProcess # "null" THEN "" ELSE wdReason
    /\ UNCHANGED <<exitCode, now, bridgeProcess, killed, restartTimes, shuttingDown,
                   wdExit, restartTimers, killTimer, exitListener, spawnLog, attempts,
                   sigterm, sigkill, graceElapsed, onlyCrashes>>
    /\ UNCHANGED <<bridgeVars, sideVars>>

\* No timer of the list is due: the earliest deadline comes first.
NotDue(timers) == IF timers = <<>> THEN TRUE ELSE Head(timers) > now

\* Time passes; a timer that is due fires before more time passes.
Tick ==
    /\ wdExit = "running"
    /\ now < MaxTicks * TickMs
    /\ NotDue(restartTimers)
    /\ NotDue(killTimer)
    /\ hbDue > now
    /\ now' = now + TickMs
    /\ onlyCrashes' = (onlyCrashes /\ bridgeProcess # "alive")
    /\ UNCHANGED <<exitCode, bridgeProcess, killed, restartTimes, shuttingDown,
                   wdStatus, wdReason, wdExit, restartTimers, killTimer, exitListener,
                   hbDue, spawnLog, attempts, sigterm, sigkill, graceElapsed>>
    /\ UNCHANGED <<bridgeVars, sideVars>>

\* =============================================================== dashboard
\* The bridge processes. <<"w", k>> is the child of the watchdog's k-th spawn,
\* <<"d", k>> the k-th bridge spawned by the dashboard.
WatchdogChild == <<"w", Len(spawnLog)>>

\* The watchdog's child is running: its handle is alive and no signal of the
\* dashboard has ended it (its 'exit' event may still be on its way).
ChildRunning == bridgeProcess = "alive" /\ signalled # Len(spawnLog)

\* The bridge processes that are alive.
LiveBridges == (IF ChildRunning THEN {WatchdogChild} ELSE {}) \cup detached

\* updateHealth() in bridge p, at its start and on its 5 s interval: the pid
\* field of health.json.
WriteHealthPid(p) ==
    /\ p \in LiveBridges
    /\ healthPid' = <<p>>
    /\ UNCHANGED <<signalled, detached, spawned>>
    /\ UNCHANGED <<bridgeVars, wdVars, histVars, healthVars, sendVars, fmtVars, slotVars>>

\* process.kill(health.pid, 'SIGTERM') of the dashboard. bridge.js installs
\* no handler, so the signal ends the process; for a process that no longer
\* exists the call throws and the error is logged.
Signalled(f) == IF f # <<>> /\ f[1] = WatchdogChild /\ ChildRunning
                THEN Len(spawnLog) ELSE signalled
Remaining(f) == IF f = <<>> THEN detached ELSE detached \ {f[1]}

\* POST /api/restart: signal the pid of health.json if there is one, then
\* spawn a detached bridge.
DashRestart ==
    /\ spawned < MaxDetached
    /\ signalled' = Signalled(healthPid)
    /\ spawned' = spawned + 1
    /\ detached' = Remaining(healthPid) \cup {<<"d", spawned + 1>>}
    /\ UNCHANGED healthPid
    /\ UNCHANGED <<bridgeVars, wdVars, histVars, healthVars, sendVars, fmtVars, slotVars>>

\* POST /api/stop: signal the pid of health.json if there is one.
DashStop ==
    /\ healthPid # <<>>
    /\ healthPid[1] \in LiveBridges
    /\ signalled' = Signalled(healthPid)
    /\ detached' = Remaining(healthPid)
    /\ UNCHANGED <<healthPid, spawned>>
    /\ UNCHANGED <<bridgeVars, wdVars, histVars, healthVars, sendVars, fmtVars, slotVars>>

\* A bridge spawned by the dashboard exits by itself. Nothing observes it.
DetachedExit ==
    /\ \E p \in detached : detached' = detached \ {p}
    /\ UNCHANGED <<healthPid, signalled, spawned>>
    /\ UNCHANGED <<bridgeVars, wdVars, histVars, healthVars, sendVars, fmtVars, slotVars>>

\* The watchdog's 'exit' event for its child: a child that the dashboard's
\* signal ended reports code null.
SupervisedExit ==
    /\ ChildExit
    /\ (signalled = Len(spawnLog)) => exitCode' = <<NullCode>>

\* ========================================================== specifications
\* The state after module load, for the environments given: whether the
\* credential is set, and the allowlist.
BridgeBoot(tokens, allowlists) ==
    /\ botToken \in tokens
    /\ allowed \in allowlists
    /\ logWritable = TRUE
    /\ bridgeExit = "running"
    /\ workingDir = "home"
    /\ messagesProcessed = 0
    /\ senders = <<>>
    /\ reply = [m \in 1..MaxIds |-> "none"]
    /\ response = [m \in 1..MaxIds |-> <<"none", "none">>]
    /\ fetchFailed = FALSE
    /\ fanPc = "idle"
    /\ numAgents = 0
    /\ agentState = [i \in 1..MaxFan |-> "none"]
    /\ fanOutput = <<>>
    /\ updates = <<>>
    /\ confirmed = 0
    /\ stateFile = <<>>
    /\ lastUpdateId = loadState(<<>>)
    /\ loadedCursor = loadState(<<>>)
    /\ lastOffset = 0
    /\ pollPc = "start"
    /\ batch = <<>>
    /\ cur = 0
    /\ isProcessing = FALSE
    /\ activeAgents = 0
    /\ messageQueue = <<>>
    /\ callPc = [c \in Calls |-> "none"]
    /\ startLog = <<>>
    /\ arrivedBusy = {}
    /\ everQueued = {}
    /\ handled = {}
    /\ crashes = 0

\* The credential is set and one chat is allowed.
BridgeInit == BridgeBoot({TRUE}, {{1}})

\* The watchdog script has logged its banner and written status starting; its
\* call of startBridge is the first thing to run.
WatchdogInit ==
    /\ now = 0
    /\ bridgeProcess = "null"
    /\ killed = FALSE
    /\ restartTimes = <<>>
    /\ shuttingDown = FALSE
    /\ wdStatus = "starting"
    /\ wdReason = ""
    /\ wdExit = "running"
    /\ restartTimers = <<0>>
    /\ killTimer = <<>>
    /\ exitListener = FALSE
    /\ hbDue = HEARTBEAT_MS
    /\ spawnLog = <<>>
    /\ attempts = 0
    /\ exitCode = <<>>
    /\ sigterm = FALSE
    /\ sigkill = FALSE
    /\ graceElapsed = FALSE
    /\ onlyCrashes = TRUE

\* No messages.json yet, no saveMessage call in progress.
HistInit ==
    /\ messagesFile = <<>>
    /\ histPc = "idle"
    /\ histBuf = <<>>
    /\ histN = 0

\* health.json as the dashboard can find it when it starts, for the files
\* given; no request answered yet.
HealthBoot(files) ==
    /\ healthFile \in files
    /\ wallClock = EpochMs
    /\ healthReply = <<>>

\* No health.json yet.
HealthInit == HealthBoot({<<>>})

\* No sendMessage call yet.
SendInit ==
    /\ sendPc = "idle"
    /\ sendChat = 0
    /\ sendArg = <<>>
    /\ sendChunks = <<>>
    /\ transmitted = <<>>
    /\ posts = <<>>

\* formatForTelegram not called yet.
FmtInit ==
    /\ fmtPc = "idle"
    /\ fmtInput = <<>>
    /\ fmtOut = <<>>

\* No bridge has written health.json and the dashboard has issued no command.
DashInit ==
    /\ healthPid = <<>>
    /\ signalled = 0
    /\ detached = {}
    /\ spawned = 0

\* pollLoop has written status idle; no request has been handled.
SlotInit ==
    /\ slotPc = "idle"
    /\ requested = <<>>
    /\ started = {}
    /\ settled = {}
    /\ statsStatus = "idle"
    /\ snapshot = <<"idle", FALSE, 0>>

SideInit == HistInit /\ HealthInit /\ SendInit /\ FmtInit /\ DashInit /\ SlotInit

Init == BridgeInit /\ WatchdogInit /\ SideInit

BridgeStep ==
    \/ Startup
    \/ GetUpdates
    \/ PollNext
    \/ PollResume
    \/ \E c \in Calls : Resume(c)
    \/ \E c \in Calls : ExecDone(c)

Next ==
    \/ Deliver(MaxUpdates)
    \/ BridgeStep

CrashNext ==
    \/ Deliver(MaxCrashUpdates)
    \/ BridgeStep
    \/ Crash

\* The watchdog restarting its child, and the dashboard's commands.
DashNext ==
    \/ StartBridge
    \/ SupervisedExit
    \/ ChildError
    \/ Tick
    \/ \E p \in LiveBridges : WriteHealthPid(p)
    \/ DashRestart
    \/ DashStop
    \/ DetachedExit

\* One top-level request: a single task, or /agents N.
SlotNext ==
    \/ AgentsRequest
    \/ AgentsLaunch
    \/ RunClaudeEnter
    \/ \E i \in 1..MAX_PARALLEL_AGENTS : QuerySettles(i)
    \/ SlotFinally
    \/ HealthInterval

WNext ==
    \/ StartBridge
    \/ ChildExit
    \/ ChildError
    \/ Shutdown
    \/ KillTimeout
    \/ Heartbeat
    \/ Tick

\* The watchdog with signals that can fail to reach the child.
KillNext ==
    \/ WNext
    \/ ShutdownKillFails
    \/ KillTimeoutFails

\* The bridge in any environment (credential set or not, any allowlist),
\* receiving prompts, /stop and /cd from any chat.
CmdInit == BridgeBoot(BOOLEAN, SUBSET ChatIds) /\ WatchdogInit /\ SideInit

CmdNext ==
    \/ DeliverText(MaxCmdUpdates, CmdTexts)
    \/ BridgeStep

\* The bridge receiving prompts and every command it answers directly.
CtlNext ==
    \/ DeliverText(MaxUpdates, CtlTexts)
    \/ BridgeStep

\* The bridge receiving prompts, domain-mode requests, /agents requests,
\* /stop and the other commands.
AnyTextNext ==
    \/ DeliverText(MaxUpdates, Texts \cup {"stop"})
    \/ BridgeStep

\* The bridge with a transport that can fail and a log file that can become
\* unwritable.
FaultNext ==
    \/ Deliver(MaxFaultUpdates)
    \/ Startup
    \/ GetUpdates
    \/ FetchFails
    \/ LoggedPollNext
    \/ PollNextThrows
    \/ PollResume
    \/ \E c \in Calls : LoggedResume(c)
    \/ \E c \in Calls : LoggedExecDone(c)
    \/ \E c \in Calls : CallThrows(c)
    \/ PollCatch
    \/ BackoffElapses
    \/ LogBreaks
    \/ LogRecovers

\* The bridge with an executor that can fail.
ExecNext ==
    \/ Deliver(MaxExecUpdates)
    \/ BridgeStep
    \/ \E c \in Calls : ExecFails(c)

FanNext ==
    \/ FanStart
    \/ \E i \in 1..MaxFan : AgentSettles(i)
    \/ FanCollect

\* The history file written by saveMessage alone.
CapNext ==
    \/ HistLoad
    \/ HistWrite

\* The history file written by saveMessage while the dashboard serves requests.
HistNext ==
    \/ HistLoad
    \/ HistWrite
    \/ ClearMessages

\* The dashboard started with no health.json, or with one that carries no
\* heartbeat (not written by this bridge).
HealthSpecInit ==
    /\ BridgeInit /\ WatchdogInit /\ HistInit /\ SendInit /\ FmtInit /\ DashInit
    /\ SlotInit
    /\ HealthBoot({<<>>, <<"idle", <<>>>>})

\* The bridge writing health.json, or not, while the dashboard is polled.
HealthNext ==
    \/ UpdateHealth
    \/ ClockTick
    \/ GetHealth

\* Calls of sendMessage with a transport that accepts every post.
ChunkNext ==
    \/ SendMessage
    \/ SendChunk

\* One call of sendMessage with a transport that can reject any post and a
\* log file that can become unwritable.
FallbackNext ==
    \/ SendTagged
    \/ SendChunk
    \/ PostHtmlFails
    \/ PostPlain
    \/ LogBreaks
    \/ LogRecovers

FormatNext ==
    \/ FormatFirst
    \/ FormatAgain

Spec == Init /\ [][Next]_vars

FormatSpec == Init /\ [][FormatNext]_vars

ChunkSpec == Init /\ [][ChunkNext]_vars

HealthSpec == HealthSpecInit /\ [][HealthNext]_vars

CapSpec == Init /\ [][CapNext]_vars

HistSpec == Init /\ [][HistNext]_vars

FanSpec == Init /\ [][FanNext]_vars

ExecSpec == Init /\ [][ExecNext]_vars

CmdSpec == CmdInit /\ [][CmdNext]_vars
CtlSpec == Init /\ [][CtlNext]_vars

FaultSpec == Init /\ [][FaultNext]_vars

CrashSpec == Init /\ [][CrashNext]_vars

WSpec == Init /\ [][WNext]_vars
KillSpec == Init /\ [][KillNext]_vars
DashSpec == Init /\ [][DashNext]_vars
SlotSpec == Init /\ [][SlotNext]_vars
FallbackSpec == Init /\ [][FallbackNext]_vars
AnyTextSpec == Init /\ [][AnyTextNext]_vars

\* getUpdates answering with at least one update.
GetUpdatesSome == GetUpdates /\ batch' # <<>>

\* The event loop runs every continuation that is ready, every executor
\* invocation settles, and the transport does not fail forever. No crash.
Fairness ==
    /\ WF_vars(Startup)
    /\ WF_vars(GetUpdatesSome)
    /\ WF_vars(PollNext)
    /\ WF_vars(PollResume)
    /\ \A c \in Calls : WF_vars(Resume(c)) /\ WF_vars(ExecDone(c))

FairSpec == Spec /\ Fairness

\* ================================================================== claims
Running == {c \in Calls : callPc[c] = "run"}
Started(m) == \E i \in DOMAIN startLog : startLog[i] = m

\* C1 (single-flight): in every reachable state at most one processMessage call,
\* whether made by pollLoop or by the queue-drain callback, has an executor
\* invocation (runClaude or one fan-out batch) in flight.
SingleFlight == Cardinality(Running) <= 1

\* C1 witness: a task is executing while another update, received by the
\* transport during the execution, waits.
SingleFlightWitness ==
    /\ Cardinality(Running) = 1
    /\ \E m \in arrivedBusy : m > lastUpdateId

BusyArrivalEnqueued ==
    \A m \in arrivedBusy :
        (updates[m] \in TopLevel /\ callPc[<<m, "poll">>] # "none") => m \in everQueued

\* C4 (as claimed): while a task executes, pollLoop is not suspended in the
\* forwarding of a message: the forward returned when the execution started.
NonBlockingSubmit == Running # {} => pollPc # "await"

InProgress(u) ==
    \/ \E o \in Origins : callPc[<<u, o>>] \notin {"none", "done"}
    \/ \E i \in DOMAIN messageQueue : messageQueue[i] = u
    \/ \E i \in DOMAIN batch : batch[i] = u

\* C6 (as claimed): no update is lost: every update the transport delivered has
\* been handled to completion, is being handled by the running process, or is
\* still ahead of the cursor and unconfirmed, so that a later fetch returns it.
NoLossAcrossCrash ==
    \A u \in 1..Len(updates) :
        \/ u \in handled
        \/ InProgress(u)
        \/ (u > lastUpdateId /\ u > confirmed)

\* C7 (as claimed): neither the in-memory cursor nor the persisted cursor ever
\* decreases, crash-and-restart included, and the persisted cursor never
\* exceeds the in-memory one.
CursorNeverDecreases ==
    /\ [][/\ lastUpdateId' >= lastUpdateId
          /\ loadState(stateFile') >= loadState(stateFile)]_vars
    /\ [](loadState(stateFile) <= lastUpdateId)

\* C7 (amended): within one process run the in-memory cursor never decreases; a
\* crash-and-restart sets it to what loadState reads from the file, 0 when the
\* file is missing or unreadable; the persisted cursor decreases only by a
\* failed write that leaves the file unreadable; the persisted cursor never
\* exceeds the in-memory one.
CursorMonotoneWithinRun ==
    /\ [][/\ crashes' = crashes => lastUpdateId' >= lastUpdateId
          /\ crashes' # crashes => lastUpdateId' = loadState(stateFile)
          /\ loadState(stateFile') < loadState(stateFile) => stateFile' = <<>>]_vars
    /\ [](loadState(stateFile) <= lastUpdateId)

\* C7 witness: after a restart the in-memory cursor is below an update that was
\* handled to completion before the crash.
CursorFellBack ==
    /\ crashes > 0
    /\ \E u \in handled : u > lastUpdateId

\* C8 (resume point): a restart loads the cursor k the state file holds; the
\* first fetch of the run requests offset k + 1 and every fetch of the run
\* requests an offset above k.
ResumePoint ==
    /\ [][/\ (crashes' # crashes /\ stateFile # <<>>) =>
                (lastUpdateId' = stateFile[1] /\ loadedCursor' = stateFile[1])
          /\ (lastOffset = 0 /\ lastOffset' # 0) => lastOffset' = loadedCursor + 1]_vars
    /\ [](lastOffset # 0 => lastOffset > loadedCursor)

\* C8 witness: the process restarted with a stored cursor k > 0 and has fetched.
ResumeWitness ==
    /\ crashes > 0
    /\ stateFile # <<>>
    /\ loadedCursor > 0
    /\ lastOffset = loadedCursor + 1

\* ---------------------------------------------------------------- watchdog
\* C9 (restart-loop bound): no more than MAX_RESTARTS spawns fall in any window
\* of RESTART_WINDOW_MS; a trip writes status stopped, reason restart_loop, and
\* exits with code 1, and no spawn follows it; for a child that exits nonzero at
\* once on every spawn, at most MAX_RESTARTS spawns are made and the start
\* attempt after them trips.
RestartLoopBound ==
    /\ [](\A i \in DOMAIN spawnLog :
            Cardinality({j \in DOMAIN spawnLog :
                /\ spawnLog[j] <= spawnLog[i]
                /\ spawnLog[i] - spawnLog[j] < RESTART_WINDOW_MS}) <= MAX_RESTARTS)
    /\ [](wdReason = "restart_loop" <=> wdExit = "exit1")
    /\ [](wdExit = "exit1" => wdStatus = "stopped")
    /\ [](onlyCrashes => /\ Len(spawnLog) <= MAX_RESTARTS
                         /\ attempts > MAX_RESTARTS => wdExit = "exit1")
    /\ [][wdExit = "exit1" => spawnLog' = spawnLog /\ wdExit' = "exit1"]_vars

\* C9 witness: the watchdog tripped on a child that only ever crashed at once.
RestartLoopWitness ==
    /\ onlyCrashes
    /\ wdExit = "exit1"
    /\ Len(spawnLog) = MAX_RESTARTS

\* C10 (as claimed): when the grace period has elapsed with the child still
\* alive, the child has been sent SIGKILL.
ShutdownEscalates == (graceElapsed /\ killTimer = <<>>) => sigkill

\* C11 (as claimed): once a termination signal has been handled and nothing is
\* left to happen (the child is gone, no timer is pending), the watchdog has
\* exited with code 0 and its last status is stopped.
ShutdownTerminates ==
    (/\ shuttingDown
     /\ bridgeProcess = "exited"
      /\ restartTimers = <<>>
     /\ killTimer = <<>>) => (wdExit = "exit0" /\ wdStatus = "stopped")

\* C20 (as claimed): once status restarting, error or stopped has been written,
\* no later write reports running unless that write belongs to a new spawn.
StatusTracksState ==
    [][(wdStatus \in {"restarting", "error", "stopped"} /\ wdStatus' = "running")
          => spawnLog' # spawnLog]_vars


\* ----------------------------------------------------------------- fan-out
\* C12 (fan-out isolation): when the dispatch returns, all N agents have
\* settled and the combined reply holds exactly N entries, entry i carrying
\* index i and marked success iff agent i succeeded; the dispatch never raises;
\* no step changes the outcome of a settled agent or stops a running one.
FanOutIsolation ==
    /\ [](fanPc = "done" =>
            /\ \A i \in 1..numAgents : agentState[i] \in {"ok", "fail"}
            /\ Len(fanOutput) = numAgents
            /\ \A i \in 1..numAgents : fanOutput[i] = <<i, agentState[i] = "ok">>)
    /\ [](fanPc # "raised")
    /\ [][\A i \in 1..MaxFan :
            /\ agentState[i] \in {"ok", "fail"} => agentState'[i] = agentState[i]
            /\ agentState[i] = "running" => agentState'[i] \in {"running", "ok", "fail"}]_vars

\* C12 witness: a full batch returned with some agents failed and some not.
FanOutWitness ==
    /\ fanPc = "done"
    /\ numAgents = MaxFan
    /\ \E i, j \in 1..numAgents : agentState[i] = "fail" /\ agentState[j] = "ok"

\* ------------------------------------------------------------------ errors
\* C13 (executor failure is contained): when the executor of a request fails,
\* the response sent to the requester is the error text, the step that settles
\* the execution leaves the slot idle (isProcessing false, activeAgents 0) and
\* pollLoop where it was, the process keeps running, and the slot is busy only
\* while an execution is in flight, so that the next message finds it idle.
ExecutorFailureContained ==
    /\ [](\A m \in 1..MaxIds : response[m][1] = "error" => response[m][2] = "error")
    /\ [][\A c \in Calls : (callPc[c] = "run" /\ callPc'[c] # "run") =>
            /\ callPc'[c] = "reply"
            /\ isProcessing' = FALSE
            /\ activeAgents' = 0
            /\ pollPc' = pollPc]_vars
    /\ [](isProcessing => \E c \in Calls : callPc[c] = "run")
    /\ [](pollPc # "escaped" /\ bridgeExit = "running")

\* C13 witness: the message after a failed single-task request was a prompt,
\* was acknowledged as usual and has been handled to completion.
ExecutorFailureWitness ==
    \E m \in 1..(MaxIds - 1) :
        /\ response[m][1] = "error"
        /\ updates[m] \in {"prompt", "mode"}
        /\ Len(updates) > m
        /\ updates[m + 1] = "prompt"
        /\ reply[m + 1] = "ack"
        /\ (m + 1) \in handled

\* ---------------------------------------------------------------- commands
\* The step moves a processMessage call of update m.
Moves(m) == \E o \in Origins : callPc'[<<m, o>>] # callPc[<<m, o>>]

\* C14 (authorization): a message from a chat that is not in the allowlist (any
\* chat when the allowlist is empty) never reaches an acknowledgement, an
\* execution or the queue; the steps of its handling leave isProcessing,
\* activeAgents, the queue, WORKING_DIR and the processed counter unchanged;
\* the only reply sent for it is the unauthorized reply.
UnauthorizedHasNoEffect ==
    /\ [](\A m \in 1..Len(updates) : senders[m] \notin allowed =>
            /\ \A o \in Origins : callPc[<<m, o>>] \in {"none", "ctl", "done"}
            /\ reply[m] \in {"none", "unauthorized"}
            /\ response[m] = <<"none", "none">>
            /\ m \notin everQueued
            /\ \A i \in DOMAIN startLog : startLog[i] # m)
    /\ [][\A m \in 1..Len(updates) : (senders[m] \notin allowed /\ Moves(m)) =>
            /\ UNCHANGED <<isProcessing, activeAgents, messageQueue, workingDir,
                           messagesProcessed, startLog>>
            /\ reply'[m] = "unauthorized"]_vars

\* C14 witness: with an empty allowlist a message was answered unauthorized
\* and its handling is complete.
UnauthorizedWitness ==
    /\ allowed = {}
    /\ \E m \in 1..Len(updates) : m \in handled /\ reply[m] = "unauthorized"

\* C17 (missing credential): without the credential pollLoop never begins: no
\* fetch is issued, no processMessage call is made, no reply is sent; the
\* process exits with code 1, and only in that case.
MissingTokenIsFatal ==
    /\ [](~botToken =>
            /\ pollPc = "start"
            /\ lastOffset = 0
            /\ \A c \in Calls : callPc[c] = "none"
            /\ \A m \in 1..MaxIds : reply[m] = "none")
    /\ [](bridgeExit = "exit1" => ~botToken)
    /\ [][(~botToken /\ pollPc = "start" /\ bridgeExit = "running"
             /\ bridgeExit' # bridgeExit) => bridgeExit' = "exit1"]_vars
    /\ [][bridgeExit = "exit1" => bridgeExit' = "exit1"]_vars

\* C17 witness: the process has exited with code 1 while updates wait at the
\* transport.
MissingTokenWitness ==
    /\ bridgeExit = "exit1"
    /\ Len(updates) > 0
    /\ confirmed = 0

BackoffAfterFailedFetch == pollPc = "fetch" => ~fetchFailed

\* C16 (as claimed): once pollLoop has issued a fetch, no exception escapes it:
\* the loop is running whatever was thrown in the handling of a message.
PollLoopNeverEscapes == lastOffset # 0 => pollPc # "escaped"

\* C18 (as claimed): no processMessage call is aborted by a failed write of a
\* persisted file.
WriteFailureSwallowed == \A c \in Calls : callPc[c] # "thrown"

\* ----------------------------------------------------------------- history
\* The list messages.json holds.
Stored == IF messagesFile = <<>> THEN <<>> ELSE messagesFile[1]
StoredAfter == IF messagesFile' = <<>> THEN <<>> ELSE messagesFile'[1]

Min(a, b) == IF a <= b THEN a ELSE b

\* C21 (as claimed): whatever the dashboard does between and during the
\* appends, every one of the latest MESSAGES_KEPT entries appended is in the
\* file: an entry leaves the file by eviction at the cap only.
NoHistoryLost ==
    \A e \in 1..histN :
        e > histN - MESSAGES_KEPT => \E i \in DOMAIN Stored : Stored[i] = e

\* C22 (as claimed): every top-level task whose execution has settled, with a
\* result or with an executor failure, has exactly one entry in the history,
\* and once its handling is complete it has been counted.
HistoryOnEveryCompletion ==
    /\ \A m \in 1..Len(updates) :
          (updates[m] \in TopLevel /\ response[m][1] # "none") =>
              Cardinality({i \in DOMAIN Stored : Stored[i] = m}) = 1
    /\ messagesProcessed >= Cardinality({m \in handled : updates[m] \in TopLevel})

\* C23 (history cap): after n appends to a file that started empty the file
\* holds exactly the latest min(n, MESSAGES_KEPT) entries in append order; an
\* append adds the new entry at the end and removes the oldest entry, and
\* nothing else, exactly when the file already holds MESSAGES_KEPT entries.
HistoryCap ==
    /\ [](Stored = [i \in 1..Min(histN, MESSAGES_KEPT) |->
                        histN - Min(histN, MESSAGES_KEPT) + i])
    /\ [][histN' # histN =>
            StoredAfter = IF Len(Stored) < MESSAGES_KEPT
                          THEN Append(Stored, histN')
                          ELSE Append(Tail(Stored), histN')]_vars

\* C23 witness: more entries were appended than the cap; the file is full and
\* its oldest entry is the one appended MESSAGES_KEPT - 1 appends before the
\* latest.
HistoryCapWitness ==
    /\ histN > MESSAGES_KEPT + 1
    /\ Len(Stored) = MESSAGES_KEPT
    /\ Stored[1] = histN - MESSAGES_KEPT + 1
    /\ Stored[MESSAGES_KEPT] = histN

\* ------------------------------------------------------------------ health
\* C24 (liveness threshold): every answer of the health endpoint reports the
\* bridge as running iff health.json is readable, carries a heartbeat, and the
\* heartbeat is less than LIVENESS_S seconds old at the time of the request,
\* whatever the status field says; the status is passed through as stored.
LivenessThreshold ==
    [][healthReply' # healthReply =>
         /\ healthReply'[1] = (/\ healthFile # <<>>
                                /\ healthFile[2] # <<>>
                                /\ wallClock - healthFile[2][1] < LIVENESS_S * 1000)
         /\ healthReply'[2] = (IF healthFile = <<>> THEN "unknown" ELSE healthFile[1])]_vars

\* C24 witness: the file says processing with a heartbeat exactly LIVENESS_S
\* seconds old, and the endpoint has answered not running.
LivenessWitness ==
    /\ healthReply = <<FALSE, "processing", wallClock>>
    /\ healthFile = <<"processing", <<wallClock - LIVENESS_S * 1000>>>>

\* ---------------------------------------------------------------- chunking
\* The bodies of the transmitted messages, one after the other.
RECURSIVE Bodies(_)
Bodies(msgs) == IF msgs = <<>> THEN <<>> ELSE Head(msgs)[2] \o Bodies(Tail(msgs))

RECURSIVE SquashRuns(_)
SquashRuns(text) ==
    IF text = <<>> THEN <<>>
    ELSE IF Head(text) \in Whitespace
         THEN <<" ">> \o SquashRuns(TrimStart(text))
         ELSE <<Head(text)>> \o SquashRuns(Tail(text))
Squashed(text) == Trim(SquashRuns(text))

\* C26 (as claimed): for a text without markup, what formatForTelegram returns
\* equals the text modulo whitespace runs, and formatting that output again
\* returns it unchanged.
FormatterIdempotent ==
    /\ fmtPc # "idle" => Squashed(fmtOut[1]) = Squashed(fmtInput)
    /\ fmtPc = "twice" => fmtOut[2] = fmtOut[1]

\* ---------------------------------------------------------------- pollLoop
\* The processMessage calls made by pollLoop that have not returned.
Forwarding == {m \in 1..MaxIds : callPc[<<m, "poll">>] \notin {"none", "done"}}

\* C27 (per-batch ordering): a fetch reaches the transport only when no update
\* of the previous batch is left and no forwarded call is unfinished; at most
\* one forwarded call is unfinished at any time; an update is forwarded only
\* after every older update has been forwarded and has returned; the step
\* that forwards update m has set the cursor to m and written m to the state
\* file (a failed write leaves the file as it was, or unreadable).
PerBatchOrdering ==
    /\ [][(lastOffset' # lastOffset \/ confirmed' # confirmed) =>
            (batch = <<>> /\ Forwarding = {})]_vars
    /\ [](Cardinality(Forwarding) <= 1)
    /\ [](\A m, k \in 1..MaxIds :
            (k < m /\ callPc[<<m, "poll">>] # "none") => callPc[<<k, "poll">>] = "done")
    /\ [][\A m \in 1..MaxIds :
            (callPc[<<m, "poll">>] = "none" /\ callPc'[<<m, "poll">>] # "none") =>
                /\ lastUpdateId' = m
                /\ stateFile' \in {<<m>>, stateFile, <<>>}
                /\ \A i \in DOMAIN batch' : batch'[i] > m]_vars

\* C27 witness: one fetch returned three updates; the first has been handled,
\* the second is being forwarded, the third waits in the batch.
PerBatchWitness ==
    /\ pollPc = "await"
    /\ lastOffset = 1
    /\ cur = 2
    /\ callPc[<<1, "poll">>] = "done"
    /\ Forwarding = {2}
    /\ batch = <<3>>

\* ---------------------------------------------------------------- restarts
\* The step is an 'exit' event of the child, received while not shutting down.
ExitEvent == bridgeProcess = "alive" /\ bridgeProcess' = "exited" /\ ~shuttingDown

\* C28 (restart rule): an exit with a nonzero code or by signal, received
\* while not shutting down, sets the status to restarting and schedules one
\* startBridge call at exactly RESTART_DELAY_MS after the exit; an exit with
\* code 0 sets the status to stopped with reason normal_exit and schedules
\* nothing, and no child is ever spawned afterwards. A startBridge call is
\* made only by consuming a scheduled call whose time has come, calls are
\* scheduled only by an exit or a failed spawn, and at most one is pending.
RestartRule ==
    /\ [][ExitEvent =>
            IF exitCode' # <<0>>
            THEN /\ wdStatus' = "restarting"
                 /\ restartTimers' = Append(restartTimers, now + RESTART_DELAY_MS)
            ELSE /\ wdStatus' = "stopped"
                 /\ wdReason' = "normal_exit"
                 /\ restartTimers' = restartTimers]_vars
    /\ [][attempts' # attempts =>
            /\ attempts' = attempts + 1
            /\ restartTimers # <<>>
            /\ Head(restartTimers) <= now
            /\ restartTimers' = Tail(restartTimers)]_vars
    /\ [][spawnLog' # spawnLog => attempts' # attempts]_vars
    /\ [][Len(restartTimers') > Len(restartTimers) =>
            bridgeProcess # bridgeProcess' /\ bridgeProcess' \in {"exited", "errored"}]_vars
    /\ [](Len(restartTimers) <= 1)
    /\ []((bridgeProcess = "exited" /\ exitCode = <<0>>) => restartTimers = <<>>)
    /\ [][(bridgeProcess = "exited" /\ exitCode = <<0>>) =>
            (bridgeProcess' = bridgeProcess /\ spawnLog' = spawnLog)]_vars

\* C28 witness: the child was ended by a signal and its successor was spawned
\* RESTART_DELAY_MS later.
RestartRuleWitness ==
    /\ exitCode = <<NullCode>>
    /\ Len(spawnLog) = 2
    /\ spawnLog[2] = spawnLog[1] + RESTART_DELAY_MS
    /\ bridgeProcess = "alive"
    /\ ~shuttingDown

\* The entries of the record that are inside the window at time t.
InWindow(rt, t) == {i \in 1..Len(rt) : t - rt[i] < RESTART_WINDOW_MS}

\* C29 (sliding window): a start attempt is refused, ending the watchdog with
\* status stopped and reason restart_loop, iff at least MAX_RESTARTS entries
\* of the record are inside the window; otherwise it spawns a child and
\* records the time. After an attempt the record holds no entry outside the
\* window, and the record never holds more than MAX_RESTARTS entries.
SlidingWindow ==
    /\ [][attempts' # attempts =>
            LET n == Cardinality(InWindow(restartTimes, now)) IN
            /\ (wdExit' = "exit1") <=> (n >= MAX_RESTARTS)
            /\ InWindow(restartTimes', now) = 1..Len(restartTimes')
            /\ IF n >= MAX_RESTARTS
               THEN /\ wdStatus' = "stopped"
                    /\ wdReason' = "restart_loop"
                    /\ spawnLog' = spawnLog
                    /\ Len(restartTimes') = n
               ELSE /\ spawnLog' = Append(spawnLog, now)
                    /\ Len(restartTimes') = n + 1
                    /\ restartTimes'[n + 1] = now]_vars
    /\ [](Len(restartTimes) <= MAX_RESTARTS)

\* C29 witness: more than MAX_RESTARTS children were started, never
\* MAX_RESTARTS of them inside one window, and the watchdog still runs.
SlidingWindowWitness ==
    /\ Len(spawnLog) > MAX_RESTARTS
    /\ Len(restartTimes) < Len(spawnLog)
    /\ bridgeProcess = "alive"
    /\ wdExit = "running"
    /\ ~shuttingDown

\* --------------------------------------------------------------- dashboard
\* C30 (single writer): at most one bridge process is alive.
SingleWriter == Cardinality(LiveBridges) <= 1

\* ---------------------------------------------------------- execution slot
\* C31 (fan-out clamp): for /agents N with N >= 1, handled while the slot is
\* idle, the queries invoked are exactly 1..min(N, MAX_PARALLEL_AGENTS), all of
\* them invoked in the step that reaches the await and before any has ended;
\* for N = 0 the request is rejected, no query is invoked and the slot stays
\* as it was.
FanOutClamp ==
    /\ [](\A n \in 1..MaxRequested :
            (requested = <<n>> /\ slotPc \in {"wait", "done"}) =>
                started = 1..(IF n <= MAX_PARALLEL_AGENTS THEN n
                              ELSE MAX_PARALLEL_AGENTS))
    /\ [][started' # started => (started = {} /\ settled' = {})]_vars
    /\ [](settled \subseteq started)
    /\ [](requested = <<0>> =>
            (slotPc = "rejected" /\ started = {} /\ ~isProcessing /\ activeAgents = 0))
    /\ [](slotPc \in {"usage", "rejected", "ack"} => started = {})

\* C31 witness: more than MAX_PARALLEL_AGENTS agents were asked for, and
\* MAX_PARALLEL_AGENTS queries are running, none of them ended.
FanOutClampWitness ==
    /\ requested # <<>>
    /\ requested[1] > MAX_PARALLEL_AGENTS
    /\ slotPc = "wait"
    /\ Cardinality(started) = MAX_PARALLEL_AGENTS
    /\ settled = {}

\* C32 (execution slot): activeAgents is 0 exactly when isProcessing is false;
\* it is 1 throughout a single-task execution and between 1 and
\* MAX_PARALLEL_AGENTS throughout a fan-out batch.
SlotInvariant ==
    /\ (activeAgents = 0) <=> ~isProcessing
    /\ slotPc = "single" => (isProcessing /\ activeAgents = 1)
    /\ slotPc = "wait" =>
          (isProcessing /\ activeAgents >= 1 /\ activeAgents <= MAX_PARALLEL_AGENTS)
    /\ slotPc \notin {"single", "wait"} => ~isProcessing

\* C32 witness: a fan-out batch of MAX_PARALLEL_AGENTS agents, some of them
\* ended and some still running.
SlotInvariantWitness ==
    /\ slotPc = "wait"
    /\ activeAgents = MAX_PARALLEL_AGENTS
    /\ settled # {}
    /\ settled # started

\* C33 (health snapshot): a snapshot with status processing records
\* isProcessing = true and activeAgents >= 1, and one with status idle records
\* isProcessing = false and activeAgents = 0.
SnapshotConsistent ==
    snapshot # <<>> =>
        /\ snapshot[1] = "processing" => (snapshot[2] /\ snapshot[3] >= 1)
        /\ snapshot[1] = "idle" => (~snapshot[2] /\ snapshot[3] = 0)

\* ------------------------------------------------------------- sendMessage
\* C34 (send fallback): a plain post is made only as the retry of the failed
\* formatted post of the same chunk, every failed formatted post is followed
\* by exactly one plain post, a failed plain post ends the call with the error
\* logged and nothing posted afterwards, and no exception leaves sendMessage.
SendFallback ==
    /\ \A k \in DOMAIN posts :
          /\ posts[k][2] = "plain" =>
                (k > 1 /\ posts[k - 1] = <<posts[k][1], "html", FALSE>>)
          /\ (posts[k][2] = "html" /\ ~posts[k][3]) =>
                IF k = Len(posts) THEN sendPc = "retry"
                ELSE posts[k + 1][1] = posts[k][1] /\ posts[k + 1][2] = "plain"
          /\ (posts[k][2] = "plain" /\ ~posts[k][3]) =>
                (k = Len(posts) /\ sendPc = "abandoned")
    /\ sendPc # "raised"

\* ---------------------------------------------------------- processMessage
\* C35 (the queue is never used): isProcessing is false in every step that
\* enters processMessage; messageQueue is empty in every state, nothing is
\* ever pushed on it and no drained call is ever scheduled; no update is
\* answered with the Queued, already-processing or cannot-interrupt reply.
QueueNeverUsed ==
    /\ [][\A c \in Calls :
            (callPc[c] \in {"none", "scheduled"} /\ callPc'[c] \notin {"none", "scheduled"})
                => ~isProcessing]_vars
    /\ [](messageQueue = <<>> /\ everQueued = {})
    /\ [](\A m \in 1..MaxIds : callPc[<<m, "drain">>] = "none")
    /\ [](\A m \in 1..MaxIds :
            reply[m] \notin {"queued", "already-processing", "cannot-interrupt"})

\* C35 witness: a prompt and a /agents request arrived at the transport while
\* a task was executing, and both were acknowledged as accepted.
QueueNeverUsedWitness ==
    \E m, k \in arrivedBusy :
        /\ updates[m] = "prompt"
        /\ updates[k] = "agents"
        /\ reply[m] = "ack"
        /\ reply[k] = "ack"

\* ---------------------------------------------------------------- children
\* C36 (one child): a child is spawned only when the child of the handle is
\* not alive, whatever events the handle has emitted and whatever timers are
\* pending.
OneLiveChild ==
    [][spawnLog' # spawnLog => bridgeProcess # "alive"]_vars

\* C36 witness: one child emitted both 'error' (a signal that could not be
\* sent) and 'exit'; the restart timer of the error handler has fired, and no
\* second child was spawned.
OneLiveChildWitness ==
    /\ wdExit = "exit0"
    /\ exitListener
    /\ ~sigterm
    /\ ~sigkill
    /\ bridgeProcess = "exited"
    /\ Len(spawnLog) = 1
    /\ restartTimers = <<>>

\* C37 (shutdown is final): once shuttingDown is set it stays set, no
\* startBridge call gets past its first test and no child is spawned; and a
\* further termination signal changes nothing: the force-kill timeout is never
\* set again, no signal is sent to the child again by shutdown, and the status
\* is never written back to stopping.
ShutdownIsFinal ==
    /\ [][shuttingDown =>
            /\ shuttingDown'
            /\ spawnLog' = spawnLog
            /\ attempts' = attempts
            /\ restartTimes' = restartTimes
            /\ bridgeProcess' \in {bridgeProcess, "exited", "errored"}]_vars
    /\ [][shuttingDown =>
            /\ killTimer' \in {killTimer, <<>>}
            /\ sigterm' = sigterm
            /\ exitListener' = exitListener
            /\ wdStatus' \in {wdStatus, "stopped", "error"}]_vars

\* C37 witness: the child had crashed and its restart was pending when the
\* termination signal came; the timer has fired since, and nothing was spawned.
ShutdownIsFinalWitness ==
    /\ shuttingDown
    /\ wdExit = "running"
    /\ wdStatus = "stopping"
    /\ bridgeProcess = "exited"
    /\ exitCode \notin {<<>>, <<0>>}
    /\ restartTimers = <<>>

\* C38 (the spawn at boot counts): the first start attempt spawns and is
\* recorded; for a child that exits nonzero at once on every spawn, attempt k
\* is made at (k - 1) * RESTART_DELAY_MS, each of the first MAX_RESTARTS
\* attempts spawns, and the watchdog trips exactly on attempt
\* MAX_RESTARTS + 1, after MAX_RESTARTS spawns.
InitialSpawnCounts ==
    /\ attempts = 1 => (restartTimes = <<0>> /\ spawnLog = <<0>>)
    /\ onlyCrashes =>
          /\ \A k \in DOMAIN spawnLog : spawnLog[k] = (k - 1) * RESTART_DELAY_MS
          /\ attempts <= MAX_RESTARTS =>
                (wdExit # "exit1" /\ Len(spawnLog) = attempts /\ restartTimes = spawnLog)
          /\ attempts > MAX_RESTARTS =>
                /\ attempts = MAX_RESTARTS + 1
                /\ wdExit = "exit1"
                /\ Len(spawnLog) = MAX_RESTARTS
                /\ now = MAX_RESTARTS * RESTART_DELAY_MS

\* C38 witness: the sixth attempt has tripped, 25 s after boot, with the spawn
\* at boot still in the record.
InitialSpawnWitness ==
    /\ onlyCrashes
    /\ attempts = MAX_RESTARTS + 1
    /\ wdExit = "exit1"
    /\ restartTimes[1] = 0
    /\ Len(restartTimes) = MAX_RESTARTS

\* C39 (as claimed): when the handling of the update at the cursor has raised
\* and pollLoop's catch is entered, the cursor stays at that update, the loop
\* goes on to the backoff wait (from which it fetches again, so that the later
\* updates of the batch are forwarded), and the failing update is not
\* forwarded a second time.
RaiseKeepsLoop ==
    [][(/\ pollPc = "catch"
        /\ ~fetchFailed
        /\ cur \in 1..MaxIds
        /\ callPc[<<cur, "poll">>] = "thrown")
       => (/\ lastUpdateId' = cur
           /\ pollPc' \in {"catch", "backoff"}
           /\ callPc'[<<cur, "poll">>] = "thrown")]_vars

\* C40 (control commands): a step of a call that handles /start, /status,
\* /cost, /logs, /stop or /cd never takes the call to the acknowledgement, the
\* executor or the queue, and leaves isProcessing, activeAgents, messageQueue
\* and messagesProcessed unchanged; WORKING_DIR changes only at the entry of a
\* /cd whose path exists, to that path, and a /cd with a missing path leaves
\* it unchanged.
ControlCommands ==
    [][/\ \A c \in Calls :
            (c[1] \in DOMAIN updates /\ updates[c[1]] \in Controls
                /\ callPc'[c] # callPc[c])
            => /\ callPc'[c] \in {"ctl", "done"}
               /\ isProcessing' = isProcessing
               /\ activeAgents' = activeAgents
               /\ messageQueue' = messageQueue
               /\ messagesProcessed' = messagesProcessed
               /\ updates[c[1]] # "cd" => workingDir' = workingDir
       /\ workingDir' # workingDir =>
            /\ workingDir' \in Dirs
            /\ \E c \in Calls :
                  /\ c[1] \in DOMAIN updates
                  /\ updates[c[1]] = "cd"
                  /\ callPc[c] = "none"
                  /\ callPc'[c] = "ctl"]_vars

\* C40 witness: a /cd with an existing path has moved WORKING_DIR, a later /cd
\* with a missing path has been answered and left it there, and nothing was
\* executed, queued or counted.
ControlCommandsWitness ==
    /\ \E m, n \in DOMAIN updates :
          /\ m < n
          /\ updates[m] = "cd"
          /\ updates[n] = "cdmissing"
          /\ callPc[<<m, "poll">>] = "done"
          /\ callPc[<<n, "poll">>] = "done"
    /\ workingDir = "proj"
    /\ startLog = <<>>
    /\ messagesProcessed = 0
    /\ ~isProcessing

=============================================================================
